---------------------------- MODULE Spec2Model ----------------------------
(***************************************************************************)
(* Web3 data aggregator: the deduplicating store (store_projects of both   *)
(* storage backends), the batch executor shared by the scraping and the    *)
(* enrichment stage, one record on its way from a scraper through          *)
(* enrichment, and the orchestrator's run_full_aggregation.                *)
(*                                                                         *)
(* Strings that the code inspects character by character (project names,   *)
(* host names) are sequences of one-character strings; a URL is the triple *)
(* urlparse splits it into.                                                *)
(***************************************************************************)
EXTENDS Naturals, Sequences, FiniteSets

(***************************************************************************)
(* Characters and the string functions the code uses                       *)
(***************************************************************************)
UpperChars == <<"A","B","C","D","E","F","G","H","I","J","K","L","M",
                "N","O","P","Q","R","S","T","U","V","W","X","Y","Z">>
LowerChars == <<"a","b","c","d","e","f","g","h","i","j","k","l","m",
                "n","o","p","q","r","s","t","u","v","w","x","y","z">>
DigitChars == {"0","1","2","3","4","5","6","7","8","9"}

\* the lowercase letter of every uppercase letter
ToLower ==
    [c \in {UpperChars[k] : k \in DOMAIN UpperChars} |->
        LowerChars[CHOOSE k \in DOMAIN UpperChars : UpperChars[k] = c]]

WordChars ==
    {UpperChars[k] : k \in DOMAIN UpperChars}
        \cup {LowerChars[k] : k \in DOMAIN LowerChars}
        \cup DigitChars \cup {"_"}

\* str.lower() on one character
LowerChar(c) == IF c \in DOMAIN ToLower THEN ToLower[c] ELSE c

\* str.lower()
lower(s) == [k \in DOMAIN s |-> LowerChar(s[k])]

\* regex class \w
IsWordChar(c) == c \in WordChars

\* regex class \s
IsSpaceChar(c) == c \in {" ", "\t", "\n", "\r"}

RECURSIVE lstrip(_)
lstrip(s) == IF s # <<>> /\ IsSpaceChar(Head(s)) THEN lstrip(Tail(s)) ELSE s

RECURSIVE rstrip(_)
rstrip(s) ==
    IF s # <<>> /\ IsSpaceChar(s[Len(s)])
    THEN rstrip(SubSeq(s, 1, Len(s) - 1))
    ELSE s

\* str.strip()
strip(s) == rstrip(lstrip(s))

\* re.sub(r'[^\w\s]', '', s)
RemoveSpecial(s) == SelectSeq(s, LAMBDA c : IsWordChar(c) \/ IsSpaceChar(c))

\* re.sub(r'\s+', ' ', s): every maximal run of whitespace becomes one blank
RECURSIVE CollapseSpaces(_)
CollapseSpaces(s) ==
    IF s = <<>> THEN <<>>
    ELSE IF IsSpaceChar(Head(s))
         THEN <<" ">> \o CollapseSpaces(lstrip(s))
         ELSE <<Head(s)>> \o CollapseSpaces(Tail(s))

\* str.startswith(prefix)
startswith(s, prefix) ==
    /\ Len(s) >= Len(prefix)
    /\ SubSeq(s, 1, Len(prefix)) = prefix

WwwPrefix == <<"w","w","w",".">>

(***************************************************************************)
(* Python's None and '' for the two kinds of value the store handles       *)
(***************************************************************************)
\* None where a string of characters is expected (a domain)
None == <<"<None>">>
\* None where a URL is expected (ProjectData.website)
NoneUrl == [scheme |-> "<None>", netloc |-> <<>>, path |-> ""]
\* the empty string '' in a URL cell of the store
EmptyUrl == [scheme |-> "", netloc |-> <<>>, path |-> ""]

\* Python truthiness of an optional string / optional URL
Truthy(s) == s # None /\ s # <<>>
TruthyUrl(u) == u # NoneUrl /\ u # EmptyUrl

\* urlparse(url).netloc
netloc(u) == u.netloc

(***************************************************************************)
(* Identity keys                                                           *)
(***************************************************************************)
\* A bug a host normaliser could have: the host is lowercased but a leading
\* "www." is kept.
normalize_host_keep_www(host) == lower(host)

\* netloc.lower(), then one leading "www." removed (models.py 97-101 and
\* helpers.py 164-170 are the same three statements)
normalize_host(host) ==
    LET domain == lower(host)
    IN  IF startswith(domain, WwwPrefix)
        THEN SubSeq(domain, Len(WwwPrefix) + 1, Len(domain))
        ELSE domain

\* ProjectData.get_domain
get_domain(project) ==
    IF ~TruthyUrl(project.website) THEN None
    ELSE normalize_host(netloc(project.website))

\* DeduplicationUtils.normalize_domain
normalize_domain(url) ==
    IF ~TruthyUrl(url) THEN None
    ELSE normalize_host(netloc(url))

\* DeduplicationUtils.normalize_project_name
normalize_project_name(name) ==
    IF name = <<>> THEN <<>>
    ELSE CollapseSpaces(strip(RemoveSpecial(lower(name))))

(***************************************************************************)
(* Records.  A ProjectData as it is after __post_init__: the name          *)
(* stripped, the website with a scheme and a host, or None.  The           *)
(* deduplicating store reads project_name and website only.                *)
(***************************************************************************)
Url(host, path) == [scheme |-> "https", netloc |-> host, path |-> path]

ProjectData(name, website, twitter) ==
    [project_name |-> name, website |-> website, twitter |-> twitter]

NameAlpha == <<"A","l","p","h","a">>
NameAlphaProtocol == <<"A","l","p","h","a"," ","P","r","o","t","o","c","o","l">>
NameBeta == <<"B","e","t","a">>
NameAlphaShout == <<"A","L","P","H","A"," ","!">>
NameGamma == <<"G","a","m","m","a">>

HostAlpha == <<"a","l","p","h","a",".","x","y","z">>
HostAlphaUpper == <<"A","L","P","H","A",".","X","Y","Z">>
HostBeta == <<"b","e","t","a",".","x","y","z">>

\* the three candidates of the concrete scenario of the specification
P_Alpha == ProjectData(NameAlpha, Url(HostAlpha, ""), "<None>")
P_AlphaProtocol ==
    ProjectData(NameAlphaProtocol, Url(WwwPrefix \o HostAlpha, ""), "<None>")
P_Beta == ProjectData(NameBeta, Url(HostBeta, ""), "<None>")
\* same name key as Alpha, no website
P_AlphaShout ==
    ProjectData(NameAlphaShout, NoneUrl, "https://twitter.com/alpha")
\* same name key as Beta, same domain key as Alpha (host case and path differ)
P_BetaOnAlpha == ProjectData(NameBeta, Url(HostAlphaUpper, "/page"), "<None>")
\* a host that still starts with "www." after one "www." is removed
P_Gamma ==
    ProjectData(NameGamma, Url(WwwPrefix \o WwwPrefix \o HostAlpha, ""), "<None>")

Candidates ==
    {P_Alpha, P_AlphaProtocol, P_Beta, P_AlphaShout, P_BetaOnAlpha, P_Gamma}

\* the records the store may hold before the modelled call
StoredBefore == {P_Alpha, P_Beta, P_AlphaShout}

\* all lists of at most n elements of S
ListsUpTo(S, n) == UNION {[1..k -> S] : k \in 0..n}

\* the longest list handed to one store_projects call
MaxCand == 3
\* the most rows in the store before the modelled call
MaxStored == 1
\* re-run model: the longest list of one call, and the number of calls
MaxRerunCand == 2
MaxRuns == 2

(***************************************************************************)
(* The store: the rows of the sheet / the records of the table.  Of the    *)
(* seven columns written, Project and Website are the two read back.       *)
(***************************************************************************)
VARIABLES
    storage_type,      \* config.storage_type: which backend is in use
    store,             \* the data rows of the store, in order
    projects,          \* the argument of the latest store_projects call
    snap_domains,      \* what _get_existing_domains returned in that call
    snap_names,        \* what _get_existing_names returned in that call
    existing_domains,  \* the running domain set when the loop ended
    existing_names,    \* the running name set when the loop ended
    new_projects,      \* the admitted candidates, as positions in projects
    skipped_count,     \* the loop's count of rejected candidates
    result,            \* how the call ended, and the pair it returned
    calls,             \* store_projects calls made so far
    prior_len,         \* rows in the store when the latest call began
    again              \* the admission loop applied a second time

storeVars ==
    <<storage_type, store, projects, snap_domains, snap_names,
      existing_domains, existing_names, new_projects, skipped_count,
      result, calls, prior_len, again>>

(***************************************************************************)
(* The two batched stages: run_all_scrapers runs the enabled scrapers,     *)
(* enrich_projects enriches a list of records.  A unit is a position of    *)
(* the stage's input list; its task runs between create_task and the       *)
(* moment it returns or raises.                                            *)
(***************************************************************************)
VARIABLES
    pc,                      \* where the stage's coroutine is
    stage,                   \* which of the two stages was called
    enabled_scrapers,        \* ScraperManager.enabled_scrapers
    enrich_input,            \* the argument of enrich_projects
    loop_i,                  \* the variable i of the stage's for loop
    group,                   \* how many iterations of that loop have begun
    batch,                   \* the units of the latest iteration's slice
    scraper_instances,       \* the units whose tasks the latest group runs
    status,                  \* per unit: "idle", "running", "done", "unbuilt"
    started_in,              \* per unit: the iteration that created its task
    invoked,                 \* per unit: how many tasks were created for it
    outcome,                 \* per unit: what its task returned or raised
    finished,                \* the latest group's units, in completion order
    batch_results,           \* what the latest batch call returned
    all_projects,            \* run_all_scrapers: the records collected
    successful_scrapers,
    failed_scrapers,
    enriched_projects,       \* enrich_projects: the list being built
    successful_enrichments,
    failed_enrichments

batchVars ==
    <<pc, stage, enabled_scrapers, enrich_input, loop_i, group, batch,
      scraper_instances, status, started_in, invoked, outcome, finished,
      batch_results, all_projects, successful_scrapers, failed_scrapers,
      enriched_projects, successful_enrichments, failed_enrichments>>

(***************************************************************************)
(* One record on its way through a run: the entity a scraper extracted,    *)
(* create_project, add_project, _enrich_single_project.                    *)
(***************************************************************************)
VARIABLES
    rec_pc,            \* how far the record has come
    raw_entity,        \* the arguments the scraper passes to create_project
    scraper,           \* the scraper: its source_name and source_url
    created,           \* what create_project returned
    scraping_result,   \* the scraper's ScrapingResult
    lookups,           \* how the two lookups of the enrichment ended
    enrichment         \* what _enrich_single_project did and returned

recordVars ==
    <<rec_pc, raw_entity, scraper, created, scraping_result, lookups,
      enrichment>>

(***************************************************************************)
(* The orchestrator: the invocations of run_full_aggregation on the one    *)
(* Web3DataAggregator instance.                                            *)
(***************************************************************************)
VARIABLES
    run,               \* per invocation: where it is, and its locals
    stage_log,         \* per invocation: the stage calls and returns, in order
    storage_ready      \* whether storage_manager.initialize can succeed

runVars == <<run, stage_log, storage_ready>>

VARIABLES
    sleeps
pauseVars == <<sleeps>>
VARIABLES
    last_call, clock, sched, jobs, scraper_run
managerVars == <<last_call>>
schedVars == <<clock, sched, jobs>>
scraperVars == <<scraper_run>>
lateVars == <<managerVars, schedVars, scraperVars>>
vars == <<storeVars, batchVars, recordVars, runVars, pauseVars, lateVars>>

\* [project.project_name or '', project.website or '', ...]
RowOf(project) ==
    [Project |-> project.project_name,
     Website |-> IF TruthyUrl(project.website) THEN project.website
                 ELSE EmptyUrl]

\* _get_existing_domains of both backends
_get_existing_domains(rows) ==
    {normalize_domain(rows[k].Website) :
        k \in {j \in DOMAIN rows :
                 /\ TruthyUrl(rows[j].Website)
                 /\ Truthy(normalize_domain(rows[j].Website))}}

\* _get_existing_names of both backends
_get_existing_names(rows) ==
    {normalize_project_name(rows[k].Project) :
        k \in {j \in DOMAIN rows : rows[j].Project # <<>>}}

\* A bug the duplicate test could have: only the domain is compared.
_is_duplicate_domain_only(project, domains, names) ==
    LET domain == get_domain(project)
    IN  Truthy(domain) /\ domain \in domains

\* _is_duplicate of both backends
_is_duplicate(project, domains, names) ==
    LET domain == get_domain(project)
        normalized_name == normalize_project_name(project.project_name)
    IN  \/ Truthy(domain) /\ domain \in domains
        \/ normalized_name \in names

\* A bug the loop could have: a rejected candidate's keys are recorded too.
AdmitStepKeysAlways(ps, k, acc) ==
    LET project == ps[k]
        withKeys ==
            [acc EXCEPT
               !.existing_domains =
                   IF Truthy(get_domain(project))
                   THEN @ \cup {get_domain(project)} ELSE @,
               !.existing_names =
                   @ \cup {normalize_project_name(project.project_name)}]
    IN  IF _is_duplicate(project, acc.existing_domains, acc.existing_names)
        THEN [withKeys EXCEPT !.skipped_count = @ + 1]
        ELSE [withKeys EXCEPT !.new_projects = Append(@, k)]

\* A bug the loop could have: an admitted candidate is put in front of the
\* ones admitted before it.
AdmitStepNewestFirst(ps, k, acc) ==
    LET project == ps[k]
    IN  IF _is_duplicate(project, acc.existing_domains, acc.existing_names)
        THEN [acc EXCEPT !.skipped_count = @ + 1]
        ELSE [acc EXCEPT
                !.new_projects = <<k>> \o @,
                !.existing_domains =
                    IF Truthy(get_domain(project))
                    THEN @ \cup {get_domain(project)} ELSE @,
                !.existing_names =
                    @ \cup {normalize_project_name(project.project_name)}]

\* one iteration of "for project in projects" (store_projects)
AdmitStep(ps, k, acc) ==
    LET project == ps[k]
    IN  IF _is_duplicate(project, acc.existing_domains, acc.existing_names)
        THEN [acc EXCEPT !.skipped_count = @ + 1]
        ELSE [acc EXCEPT
                !.new_projects = Append(@, k),
                !.existing_domains =
                    IF Truthy(get_domain(project))
                    THEN @ \cup {get_domain(project)} ELSE @,
                !.existing_names =
                    @ \cup {normalize_project_name(project.project_name)}]

\* the whole loop, from candidate k on
RECURSIVE AdmitLoop(_, _, _)
AdmitLoop(ps, k, acc) ==
    IF k > Len(ps) THEN acc
    ELSE AdmitLoop(ps, k + 1, AdmitStep(ps, k, acc))

\* the loop from its first candidate, with the two sets as read
Admit(ps, domains, names) ==
    AdmitLoop(ps, 1, [existing_domains |-> domains,
                      existing_names |-> names,
                      new_projects |-> <<>>,
                      skipped_count |-> 0])

\* Airtable creates at most this many records per batch_create
batch_size == 10

\* the write calls one store_projects makes for n new rows: one append_rows
\* (Google Sheets), or one batch_create per batch_size rows (Airtable)
WriteCalls(backend, n) ==
    IF n = 0 THEN 0
    ELSE IF backend = "google_sheets" THEN 1
    ELSE (n + batch_size - 1) \div batch_size

\* A bug the Airtable loop could have: only the first batch is created,
\* while every admitted record is counted.
RowsWrittenFirstBatch(backend, rows, fail_at) ==
    IF fail_at # 0 THEN <<>>
    ELSE IF backend = "google_sheets" \/ Len(rows) <= batch_size THEN rows
    ELSE SubSeq(rows, 1, batch_size)

\* the rows that are in the store when write call number fail_at raises
\* (fail_at = 0: no write call raises)
RowsWritten(backend, rows, fail_at) ==
    IF fail_at = 0 THEN rows
    ELSE IF backend = "google_sheets" THEN <<>>
    ELSE SubSeq(rows, 1, (fail_at - 1) * batch_size)

NotCalled == [kind |-> "none", stored_count |-> 0, skipped_count |-> 0]
NotRun == [ran |-> FALSE, new_projects |-> <<>>, skipped_count |-> 0]

\* store_projects(ps): dom_ok and names_ok say whether the two reads of the
\* store succeed (a failed read is logged and yields the empty set)
StoreProjects(ps, dom_ok, names_ok) ==
    \E domains \in {IF dom_ok THEN _get_existing_domains(store) ELSE {}},
       names \in {IF names_ok THEN _get_existing_names(store) ELSE {}} :
     \E acc \in {Admit(ps, domains, names)} :
      \E rows \in {[k \in DOMAIN acc.new_projects |->
                       RowOf(ps[acc.new_projects[k]])]} :
        \E fail_at \in 0..WriteCalls(storage_type, Len(rows)) :
            /\ projects' = ps
            /\ snap_domains' = domains
            /\ snap_names' = names
            /\ existing_domains' = acc.existing_domains
            /\ existing_names' = acc.existing_names
            /\ new_projects' = acc.new_projects
            /\ skipped_count' = acc.skipped_count
            /\ store' = store \o RowsWritten(storage_type, rows, fail_at)
            /\ result' =
                 IF fail_at = 0
                 THEN [kind |-> "returned",
                       stored_count |-> Len(rows),
                       skipped_count |-> acc.skipped_count]
                 ELSE [kind |-> "raised",
                       stored_count |-> 0, skipped_count |-> 0]
            /\ prior_len' = Len(store)
            /\ calls' = calls + 1
            /\ again' = NotRun
            /\ UNCHANGED storage_type
            /\ UNCHANGED <<batchVars, recordVars, runVars, pauseVars, lateVars>>

\* the admission loop applied again to the same list, with the running sets
\* the first pass left (the snapshot and the keys of what it admitted)
AdmitAgain ==
    /\ result.kind = "returned"
    /\ ~again.ran
    /\ LET acc == Admit(projects, existing_domains, existing_names)
       IN  again' = [ran |-> TRUE,
                     new_projects |-> acc.new_projects,
                     skipped_count |-> acc.skipped_count]
    /\ UNCHANGED <<storage_type, store, projects, snap_domains, snap_names,
                   existing_domains, existing_names, new_projects,
                   skipped_count, result, calls, prior_len>>
    /\ UNCHANGED <<batchVars, recordVars, runVars, pauseVars, lateVars>>

\* the names ScraperManager registers, in the order of its dict
scrapers ==
    <<"cryptorank", "icodrops", "coinmarketcap", "dappradar", "zealy",
      "daomaker", "polkastarter">>

\* no stage has been called
BatchFresh ==
    /\ pc = "idle"
    /\ stage = "none"
    /\ enrich_input = <<>>
    /\ batch = <<>>
    /\ loop_i = 0
    /\ group = 0
    /\ scraper_instances = <<>>
    /\ status = <<>>
    /\ started_in = <<>>
    /\ invoked = <<>>
    /\ outcome = <<>>
    /\ finished = <<>>
    /\ batch_results = <<>>
    /\ all_projects = <<>>
    /\ successful_scrapers = 0
    /\ failed_scrapers = 0
    /\ enriched_projects = <<>>
    /\ successful_enrichments = 0
    /\ failed_enrichments = 0

\* the managers as constructed: every registered scraper is enabled
BatchIdle ==
    /\ BatchFresh
    /\ enabled_scrapers = scrapers

\* no record is on its way
RecordIdle ==
    /\ rec_pc = "idle"
    /\ raw_entity = <<>>
    /\ scraper = <<>>
    /\ created = <<>>
    /\ scraping_result = <<>>
    /\ lookups = <<>>
    /\ enrichment = <<>>

\* no cooldown pause has been taken
PauseIdle == sleeps = 0

\* no call on the manager's list, no scheduled job, no run_scraper call
LateIdle ==
    /\ last_call = <<>>
    /\ clock = 0
    /\ sched = <<>>
    /\ jobs = <<>>
    /\ scraper_run = <<>>

\* run_full_aggregation has not been invoked
RunIdle ==
    /\ run = <<>>
    /\ stage_log = <<>>
    /\ storage_ready = FALSE

StoreIdle ==
    /\ projects = <<>>
    /\ snap_domains = {}
    /\ snap_names = {}
    /\ existing_domains = {}
    /\ existing_names = {}
    /\ new_projects = <<>>
    /\ skipped_count = 0
    /\ result = NotCalled
    /\ calls = 0
    /\ prior_len = 0
    /\ again = NotRun

\* one call on a store that already holds rows
InitStore ==
    /\ storage_type \in {"google_sheets", "airtable"}
    /\ store \in {[k \in DOMAIN ps |-> RowOf(ps[k])] :
                     ps \in ListsUpTo(StoredBefore, MaxStored)}
    /\ StoreIdle
    /\ BatchIdle
    /\ RecordIdle
    /\ RunIdle
    /\ PauseIdle
    /\ LateIdle

CallOnce ==
    /\ calls = 0
    /\ \E ps \in ListsUpTo(Candidates, MaxCand) :
         \E dom_ok \in BOOLEAN, names_ok \in BOOLEAN :
            StoreProjects(ps, dom_ok, names_ok)

NextStore == CallOnce \/ AdmitAgain

SpecStore == InitStore /\ [][NextStore]_vars

\* run after run on a store that starts empty
InitRerun ==
    /\ storage_type \in {"google_sheets", "airtable"}
    /\ store = <<>>
    /\ StoreIdle
    /\ BatchIdle
    /\ RecordIdle
    /\ RunIdle
    /\ PauseIdle
    /\ LateIdle

CallAgain ==
    /\ calls < MaxRuns
    /\ \E ps \in ListsUpTo(Candidates, MaxRerunCand) :
         \E dom_ok \in BOOLEAN, names_ok \in BOOLEAN :
            StoreProjects(ps, dom_ok, names_ok)

NextRerun == CallAgain

SpecRerun == InitRerun /\ [][NextRerun]_vars

(***************************************************************************)
(* Claims about the deduplicating store                                    *)
(***************************************************************************)
\* the positions of the latest call's list that were admitted
Admitted == {new_projects[k] : k \in DOMAIN new_projects}
HasWebsite(i) == TruthyUrl(projects[i].website)
DomainKey(i) == get_domain(projects[i])
NameKey(i) == normalize_project_name(projects[i].project_name)
\* the keys of the candidates admitted before position i
DomainsAdmittedBefore(i) ==
    {DomainKey(j) : j \in {a \in Admitted : a < i /\ HasWebsite(a)}}
NamesAdmittedBefore(i) == {NameKey(j) : j \in {a \in Admitted : a < i}}

\* C1: in one store_projects call a candidate is admitted exactly when its
\* domain key (if it has a website) and its name key are both absent from
\* the snapshot united with the keys of the candidates admitted before it;
\* no two admitted candidates share a domain key or a name key; and the
\* running sets grow by the keys of the admitted candidates only.
C1_AdmissionRule ==
    calls > 0 =>
      /\ \A i \in DOMAIN projects :
           i \in Admitted <=>
             /\ HasWebsite(i) =>
                  DomainKey(i) \notin snap_domains \cup DomainsAdmittedBefore(i)
             /\ NameKey(i) \notin snap_names \cup NamesAdmittedBefore(i)
      /\ \A i \in Admitted, j \in Admitted :
           i # j =>
             /\ NameKey(i) # NameKey(j)
             /\ HasWebsite(i) /\ HasWebsite(j) => DomainKey(i) # DomainKey(j)
      /\ existing_domains =
           snap_domains \cup DomainsAdmittedBefore(Len(projects) + 1)
      /\ existing_names =
           snap_names \cup NamesAdmittedBefore(Len(projects) + 1)

\* C1 witness: a candidate absent from the snapshot is rejected because an
\* earlier candidate of the same call, which was admitted, has its domain.
C1_Witness ==
    /\ calls > 0
    /\ \E i \in Admitted, j \in DOMAIN projects :
         /\ i < j
         /\ j \notin Admitted
         /\ HasWebsite(j)
         /\ DomainKey(j) = DomainKey(i)
         /\ DomainKey(j) \notin snap_domains
         /\ NameKey(j) \notin snap_names

\* the key of a stored row, read back the way the snapshot is built
RowDomain(k) == normalize_domain(store[k].Website)
RowName(k) == normalize_project_name(store[k].Project)

\* C2: a record whose domain key or name key equals that of a row persisted
\* by an earlier run is never appended, in any run, a failed read of the
\* existing keys included.  (Stated of the rows the latest call appended
\* against the rows that were there when it began.)
C2_NeverStoredTwice ==
    \A new \in DOMAIN store, old \in DOMAIN store :
        old <= prior_len /\ prior_len < new =>
          /\ RowName(new) # RowName(old)
          /\ Truthy(RowDomain(new)) => RowDomain(new) # RowDomain(old)

\* C3: the admission loop applied again to the same list, with the snapshot
\* extended by the keys of what the first pass admitted, admits nothing and
\* counts the whole list as skipped.
C3_SecondPassAdmitsNothing ==
    again.ran =>
      /\ again.new_projects = <<>>
      /\ again.skipped_count = Len(projects)

\* C3 witness: the second pass ran on a list of which the first pass had
\* admitted some and rejected some.
C3_Witness ==
    /\ again.ran
    /\ Len(new_projects) >= 2
    /\ skipped_count >= 1

\* two websites that differ at most by a leading "www." of the host, by the
\* letter case of the host, or by the path
SameSite(u, v) ==
    LET a == lower(netloc(u))
        b == lower(netloc(v))
    IN  /\ u.scheme = v.scheme
        /\ \/ a = b
           \/ a = WwwPrefix \o b
           \/ b = WwwPrefix \o a

\* the same, where the "www." stands before a host that itself does not
\* start with "www."
SameSiteOneWww(u, v) ==
    LET a == lower(netloc(u))
        b == lower(netloc(v))
    IN  /\ u.scheme = v.scheme
        /\ \/ a = b
           \/ a = WwwPrefix \o b /\ ~startswith(b, WwwPrefix)
           \/ b = WwwPrefix \o a /\ ~startswith(a, WwwPrefix)

Scenario == <<P_Alpha, P_AlphaProtocol, P_Beta>>

\* the concrete scenario: admitted = [Alpha, Beta], one rejected
ScenarioResult ==
    /\ projects = Scenario
    /\ snap_domains = {}
    /\ snap_names = {}
    /\ result.kind = "returned"
    => /\ new_projects = <<1, 3>>
       /\ result.stored_count = 2
       /\ result.skipped_count = 1

\* C4 as stated: two candidates whose websites differ only by a leading
\* "www.", by host case or by path have the same domain key and the later
\* one is rejected; and the concrete scenario ends as given.
C4_Original ==
    /\ calls > 0 =>
         \A i \in DOMAIN projects, j \in DOMAIN projects :
            /\ i < j
            /\ HasWebsite(i)
            /\ HasWebsite(j)
            /\ SameSite(projects[i].website, projects[j].website)
            => /\ DomainKey(i) = DomainKey(j)
               /\ j \notin Admitted
    /\ ScenarioResult

\* C4 as amended: two candidates whose websites differ only by one leading
\* "www." (before a host that does not itself start with "www."), by host
\* case or by path have the same domain key, and the later one is rejected
\* whenever the earlier one was admitted or that domain was in the
\* snapshot (the key being a non-empty host); and the concrete scenario ends
\* as given.
C4_SameSiteSameKey ==
    /\ calls > 0 =>
         \A i \in DOMAIN projects, j \in DOMAIN projects :
            /\ i < j
            /\ HasWebsite(i)
            /\ HasWebsite(j)
            /\ SameSiteOneWww(projects[i].website, projects[j].website)
            => /\ DomainKey(i) = DomainKey(j)
               /\ /\ Truthy(DomainKey(i))
                  /\ i \in Admitted \/ DomainKey(i) \in snap_domains
                  => j \notin Admitted
    /\ ScenarioResult

\* C4 witness: the concrete scenario has run against an empty snapshot.
C4_Witness ==
    /\ projects = Scenario
    /\ snap_domains = {}
    /\ snap_names = {}
    /\ result.kind = "returned"
    /\ store = <<RowOf(P_Alpha), RowOf(P_Beta)>>

\* the parts of C5 that do not speak of the first occurrence: the two counts
\* add up to the length of the list, the rows appended are those of the
\* admitted candidates, each candidate is admitted or counted as skipped
\* and not both, and the appended rows are in input order
C5_CountsAndOrder ==
    /\ result.stored_count + result.skipped_count = Len(projects)
    /\ result.stored_count = Cardinality(Admitted)
    /\ result.skipped_count = Cardinality(DOMAIN projects \ Admitted)
    /\ Len(new_projects) = Cardinality(Admitted)
    /\ \A k \in DOMAIN new_projects :
         /\ new_projects[k] \in DOMAIN projects
         /\ k > 1 => new_projects[k - 1] < new_projects[k]
    /\ Len(store) = prior_len + Len(new_projects)
    /\ \A k \in DOMAIN new_projects :
         store[prior_len + k] = RowOf(projects[new_projects[k]])

SharesKey(i, j) ==
    \/ NameKey(i) = NameKey(j)
    \/ Truthy(DomainKey(i)) /\ DomainKey(i) = DomainKey(j)

\* C5 as stated: ... and a persisted record is the first occurrence, in the
\* input, of each of its keys.
C5_Original ==
    result.kind = "returned" =>
      /\ C5_CountsAndOrder
      /\ \A j \in Admitted, i \in DOMAIN projects :
           i < j => ~SharesKey(i, j)

\* C5 as amended: for every call that returns, stored_count + skipped_count
\* is the length of the list, every candidate is either persisted or counted
\* as skipped, the persisted rows are in input order, and among the
\* candidates that were persisted the first occurrence of each key wins: a
\* persisted record shares no key with an earlier persisted one (an earlier
\* candidate that was itself skipped reserves no key).
C5_CountsOrderFirstAdmitted ==
    result.kind = "returned" =>
      /\ C5_CountsAndOrder
      /\ \A j \in Admitted, i \in Admitted :
           i < j => ~SharesKey(i, j)

\* C5 witness: a call returned after persisting two records around one it
\* skipped.
C5_Witness ==
    /\ result.kind = "returned"
    /\ \E i \in Admitted, k \in Admitted, j \in DOMAIN projects :
         i < j /\ j < k /\ j \notin Admitted
    /\ Len(store) = prior_len + 2

(***************************************************************************)
(* The batched stages                                                      *)
(***************************************************************************)
\* ScraperManager.max_concurrent_scrapers
max_concurrent_scrapers == 3
\* EnrichmentManager.max_concurrent_enrichments
max_concurrent_enrichments == 5

\* the longest list handed to enrich_projects
MaxEnrich == 6

\* the lists enable_scraper and disable_scraper can leave in
\* enabled_scrapers: the registered names, some removed, none twice
EnabledLists ==
    {SelectSeq(scrapers, LAMBDA name : name \in S) :
        S \in SUBSET {scrapers[k] : k \in DOMAIN scrapers}}

\* the k-th record of a list to enrich: named, without e-mail or LinkedIn
ProjectToEnrich(k) ==
    [project_name |-> <<"p", k>>, email |-> None, linkedin |-> None]

\* A bug a constructor could have: one scraper's constructor raises (its
\* API key is not configured, say).
ConstructorRaisesWithoutKey(name) == name = "cryptorank"

\* scraper_class() for a registered name: the constructors only assign
\* fields, none raises
ConstructorRaises(name) == FALSE

\* a record a scraper collected: ScrapingResult.add_project stamps the source
Collected(name, n) == [source |-> name, n |-> n]

\* what a task of run_scraper can end as: a successful result with its
\* records, a failed result that still carries the records added before the
\* failure, or an exception
ScraperOutcomes(name) ==
    {[kind |-> "returned", source |-> name, success |-> TRUE,
      projects |-> <<Collected(name, 1), Collected(name, 2)>>],
     [kind |-> "returned", source |-> name, success |-> FALSE,
      projects |-> <<Collected(name, 1)>>],
     [kind |-> "raised", source |-> name, success |-> FALSE,
      projects |-> <<>>]}

\* what a task of _enrich_single_project can end as: the copy with a contact
\* found, the record as it was (nothing found, or the error was caught
\* inside), or an exception
EnrichOutcomes(project) ==
    {[kind |-> "returned",
      project |-> [project EXCEPT !.email = <<"mail">> \o project.project_name]],
     [kind |-> "returned", project |-> project],
     [kind |-> "raised", project |-> project]}

\* A bug the slice could have: it takes one unit more than the loop's step.
BatchSliceOneMore(start, limit, n) ==
    [k \in 1..(IF start + limit + 1 < n THEN limit + 1 ELSE n - start) |->
        start + k]

\* range(i, i + limit) cut at n, as 1-based positions: the slice
\* units[i:i + limit]
BatchSlice(start, limit, n) ==
    [k \in 1..(IF start + limit < n THEN limit ELSE n - start) |-> start + k]

Limit ==
    IF stage = "collect" THEN max_concurrent_scrapers
    ELSE max_concurrent_enrichments

SeqRange(s) == {s[k] : k \in DOMAIN s}

NoOutcome == [kind |-> "none"]

\* A bug the call could have: return_exceptions is left out, so gather
\* raises when a task raised.
gather_propagating(tasks) ==
    [raised |-> \E j \in DOMAIN tasks : outcome[tasks[j]].kind = "raised",
     results |-> [j \in DOMAIN tasks |-> outcome[tasks[j]]]]

\* A bug the batch could have: the results are taken as the tasks complete
\* (asyncio.as_completed) instead of in the order of the tasks.
gather_as_completed(tasks) ==
    [raised |-> FALSE,
     results |-> [j \in DOMAIN tasks |-> outcome[finished[j]]]]

\* asyncio.gather(*tasks, return_exceptions=True), called once every task
\* has ended: the tasks' results in the order of the tasks, an exception
\* standing where a task raised; gather itself does not raise
gather(tasks) ==
    [raised |-> FALSE,
     results |-> [j \in DOMAIN tasks |-> outcome[tasks[j]]]]

\* the loop of _run_scraper_batch over gather's results: an exception
\* becomes a failed ScrapingResult of that scraper
ProcessScraperResults(tasks, results) ==
    [j \in DOMAIN results |->
        IF results[j].kind = "raised"
        THEN [kind |-> "returned",
              source |-> enabled_scrapers[tasks[j]],
              success |-> FALSE,
              projects |-> <<>>]
        ELSE results[j]]

\* _run_scraper_batch(scrapers), from the moment gather returns
_run_scraper_batch(tasks) ==
    LET g == gather(tasks)
    IN  IF g.raised THEN [raised |-> TRUE, results |-> <<>>]
        ELSE [raised |-> FALSE,
              results |-> ProcessScraperResults(tasks, g.results)]

\* A bug the loop over the results could have: a record whose task raised
\* is left out of the list.
ProcessEnrichResultsDropRaised(tasks, results) ==
    LET Returned(r) == r.kind # "raised"
        kept == SelectSeq(results, Returned)
    IN  [j \in DOMAIN kept |-> kept[j].project]

\* the loop of _enrich_project_batch over gather's results: where the task
\* raised, the original record stands
ProcessEnrichResults(tasks, results) ==
    [j \in DOMAIN results |->
        IF results[j].kind = "raised" THEN enrich_input[tasks[j]]
        ELSE results[j].project]

\* _enrich_project_batch(projects), from the moment gather returns
_enrich_project_batch(tasks) ==
    LET g == gather(tasks)
    IN  IF g.raised THEN [raised |-> TRUE, results |-> <<>>]
        ELSE [raised |-> FALSE,
              results |-> ProcessEnrichResults(tasks, g.results)]

\* A bug the loop could have: the records are taken whatever result.success.
RECURSIVE ExtendWithAll(_, _)
ExtendWithAll(acc, results) ==
    IF results = <<>> THEN acc
    ELSE ExtendWithAll(acc \o Head(results).projects, Tail(results))

\* "for result in batch_results: if result.success: all_projects.extend"
RECURSIVE ExtendWithSuccessful(_, _)
ExtendWithSuccessful(acc, results) ==
    IF results = <<>> THEN acc
    ELSE ExtendWithSuccessful(
             IF Head(results).success THEN acc \o Head(results).projects
             ELSE acc,
             Tail(results))

\* how many of the results have the given value of success
CountSuccess(results, value) ==
    Cardinality({k \in DOMAIN results : results[k].success = value})

\* A bug the test could have: "<=" for "<", a pause after the final group
\* whenever the count is a multiple of the limit.
AfterBatchInclusive(n) ==
    /\ pc' = IF loop_i + Limit <= n THEN "sleep" ELSE "done"
    /\ sleeps' = IF loop_i + Limit <= n THEN sleeps + 1 ELSE sleeps

\* after a group: "if i + limit < len(...): await asyncio.sleep(...)", or the
\* loop ends and the stage returns; sleeps counts the calls of asyncio.sleep
AfterBatch(n) ==
    /\ pc' = IF loop_i + Limit < n THEN "sleep" ELSE "done"
    /\ sleeps' = IF loop_i + Limit < n THEN sleeps + 1 ELSE sleeps

\* run_all_scrapers(), up to the first iteration of its loop
RunAllScrapers ==
    /\ pc = "idle"
    /\ stage' = "collect"
    /\ pc' = IF enabled_scrapers = <<>> THEN "done" ELSE "loop"
    /\ loop_i' = 0
    /\ group' = 0
    /\ sleeps' = 0
    /\ status' = [u \in DOMAIN enabled_scrapers |-> "idle"]
    /\ started_in' = [u \in DOMAIN enabled_scrapers |-> 0]
    /\ invoked' = [u \in DOMAIN enabled_scrapers |-> 0]
    /\ outcome' = [u \in DOMAIN enabled_scrapers |-> NoOutcome]
    /\ all_projects' = <<>>
    /\ successful_scrapers' = 0
    /\ failed_scrapers' = 0
    /\ UNCHANGED <<enabled_scrapers, enrich_input, batch, scraper_instances,
                   finished, batch_results, enriched_projects,
                   successful_enrichments, failed_enrichments>>
    /\ UNCHANGED <<storeVars, recordVars, runVars, lateVars>>

\* one iteration of run_all_scrapers' loop up to "await gather": the slice,
\* an instance per name, a task per instance
ScraperBatchStart ==
    /\ pc = "loop"
    /\ stage = "collect"
    /\ LET n == Len(enabled_scrapers)
           slice == BatchSlice(loop_i, max_concurrent_scrapers, n)
           built == SelectSeq(slice,
                       LAMBDA u : ~ConstructorRaises(enabled_scrapers[u]))
       IN  /\ batch' = slice
           /\ scraper_instances' = built
           /\ failed_scrapers' = failed_scrapers + (Len(slice) - Len(built))
           /\ status' = [u \in DOMAIN status |->
                           IF u \in SeqRange(built) THEN "running"
                           ELSE IF u \in SeqRange(slice) THEN "unbuilt"
                           ELSE status[u]]
           /\ started_in' = [u \in DOMAIN started_in |->
                               IF u \in SeqRange(built) THEN group + 1
                               ELSE started_in[u]]
           /\ invoked' = [u \in DOMAIN invoked |->
                            IF u \in SeqRange(built) THEN invoked[u] + 1
                            ELSE invoked[u]]
           /\ IF built # <<>>
              THEN pc' = "gather" /\ UNCHANGED sleeps
              ELSE AfterBatch(n)
    /\ group' = group + 1
    /\ finished' = <<>>
    /\ UNCHANGED <<stage, enabled_scrapers, enrich_input, loop_i, outcome,
                   batch_results, all_projects, successful_scrapers,
                   enriched_projects, successful_enrichments,
                   failed_enrichments>>
    /\ UNCHANGED <<storeVars, recordVars, runVars, lateVars>>

\* a running task of run_scraper ends
ScraperTaskEnds(u) ==
    /\ stage = "collect"
    /\ status[u] = "running"
    /\ \E out \in ScraperOutcomes(enabled_scrapers[u]) :
          outcome' = [outcome EXCEPT ![u] = out]
    /\ status' = [status EXCEPT ![u] = "done"]
    /\ finished' = Append(finished, u)
    /\ UNCHANGED <<pc, stage, enabled_scrapers, enrich_input, loop_i, group,
                   sleeps, batch, scraper_instances, started_in, invoked,
                   batch_results, all_projects, successful_scrapers,
                   failed_scrapers, enriched_projects,
                   successful_enrichments, failed_enrichments>>
    /\ UNCHANGED <<storeVars, recordVars, runVars, lateVars>>

\* every task of the group has ended: gather returns, _run_scraper_batch
\* returns, and run_all_scrapers processes the results
ScraperBatchReturns ==
    /\ pc = "gather"
    /\ stage = "collect"
    /\ \A u \in SeqRange(scraper_instances) : status[u] = "done"
    /\ \E r \in {_run_scraper_batch(scraper_instances)} :
         IF r.raised
         THEN /\ pc' = "raised"
              /\ UNCHANGED <<sleeps, batch_results, all_projects,
                             successful_scrapers, failed_scrapers>>
         ELSE /\ batch_results' = r.results
              /\ all_projects' = ExtendWithSuccessful(all_projects, r.results)
              /\ successful_scrapers' = successful_scrapers
                    + CountSuccess(r.results, TRUE)
              /\ failed_scrapers' = failed_scrapers
                    + CountSuccess(r.results, FALSE)
              /\ AfterBatch(Len(enabled_scrapers))
    /\ UNCHANGED <<stage, enabled_scrapers, enrich_input, loop_i, group,
                   batch, scraper_instances, status, started_in, invoked,
                   outcome, finished, enriched_projects,
                   successful_enrichments, failed_enrichments>>
    /\ UNCHANGED <<storeVars, recordVars, runVars, lateVars>>

\* asyncio.sleep between two groups ends: the loop's next iteration
SleepEnds ==
    /\ pc = "sleep"
    /\ loop_i' = loop_i + Limit
    /\ pc' = "loop"
    /\ UNCHANGED <<stage, enabled_scrapers, enrich_input, group, sleeps, batch,
                   scraper_instances, status, started_in, invoked, outcome,
                   finished, batch_results, all_projects,
                   successful_scrapers, failed_scrapers, enriched_projects,
                   successful_enrichments, failed_enrichments>>
    /\ UNCHANGED <<storeVars, recordVars, runVars, lateVars>>

\* enrich_projects(projects), up to the first iteration of its loop; the
\* scrapers play no part in it, so it is run on the manager as constructed
EnrichProjects(ps) ==
    /\ pc = "idle"
    /\ enabled_scrapers = scrapers
    /\ stage' = "enrich"
    /\ enrich_input' = ps
    /\ pc' = IF ps = <<>> THEN "done" ELSE "loop"
    /\ loop_i' = 0
    /\ group' = 0
    /\ sleeps' = 0
    /\ status' = [u \in DOMAIN ps |-> "idle"]
    /\ started_in' = [u \in DOMAIN ps |-> 0]
    /\ invoked' = [u \in DOMAIN ps |-> 0]
    /\ outcome' = [u \in DOMAIN ps |-> NoOutcome]
    /\ enriched_projects' = <<>>
    /\ successful_enrichments' = 0
    /\ failed_enrichments' = 0
    /\ UNCHANGED <<enabled_scrapers, batch, scraper_instances, finished,
                   batch_results, all_projects, successful_scrapers,
                   failed_scrapers>>
    /\ UNCHANGED <<storeVars, recordVars, runVars, lateVars>>

\* one iteration of enrich_projects' loop up to "await gather": the slice,
\* a task per record
EnrichBatchStart ==
    /\ pc = "loop"
    /\ stage = "enrich"
    /\ LET slice == BatchSlice(loop_i, max_concurrent_enrichments,
                               Len(enrich_input))
       IN  /\ batch' = slice
           /\ status' = [u \in DOMAIN status |->
                           IF u \in SeqRange(slice) THEN "running"
                           ELSE status[u]]
           /\ started_in' = [u \in DOMAIN started_in |->
                               IF u \in SeqRange(slice) THEN group + 1
                               ELSE started_in[u]]
           /\ invoked' = [u \in DOMAIN invoked |->
                            IF u \in SeqRange(slice) THEN invoked[u] + 1
                            ELSE invoked[u]]
    /\ pc' = "gather"
    /\ group' = group + 1
    /\ finished' = <<>>
    /\ UNCHANGED <<stage, enabled_scrapers, enrich_input, loop_i, sleeps,
                   scraper_instances, outcome, batch_results, all_projects,
                   successful_scrapers, failed_scrapers, enriched_projects,
                   successful_enrichments, failed_enrichments>>
    /\ UNCHANGED <<storeVars, recordVars, runVars, lateVars>>

\* a running task of _enrich_single_project ends
EnrichTaskEnds(u) ==
    /\ stage = "enrich"
    /\ status[u] = "running"
    /\ \E out \in EnrichOutcomes(enrich_input[u]) :
          outcome' = [outcome EXCEPT ![u] = out]
    /\ status' = [status EXCEPT ![u] = "done"]
    /\ finished' = Append(finished, u)
    /\ UNCHANGED <<pc, stage, enabled_scrapers, enrich_input, loop_i, group,
                   sleeps, batch, scraper_instances, started_in, invoked,
                   batch_results, all_projects, successful_scrapers,
                   failed_scrapers, enriched_projects,
                   successful_enrichments, failed_enrichments>>
    /\ UNCHANGED <<storeVars, recordVars, runVars, lateVars>>

\* "if project.email or project.linkedin"
HasContact(project) == Truthy(project.email) \/ Truthy(project.linkedin)

\* how many of the records have the given value of that test
CountContact(results, value) ==
    Cardinality({k \in DOMAIN results : HasContact(results[k]) = value})

\* every task of the group has ended: gather returns, _enrich_project_batch
\* returns, and enrich_projects extends its list and counts
EnrichBatchReturns ==
    /\ pc = "gather"
    /\ stage = "enrich"
    /\ \A u \in SeqRange(batch) : status[u] = "done"
    /\ \E r \in {_enrich_project_batch(batch)} :
         IF r.raised
         THEN /\ pc' = "raised"
              /\ UNCHANGED <<sleeps, batch_results, enriched_projects,
                             successful_enrichments, failed_enrichments>>
         ELSE /\ batch_results' = r.results
              /\ enriched_projects' = enriched_projects \o r.results
              /\ successful_enrichments' = successful_enrichments
                    + CountContact(r.results, TRUE)
              /\ failed_enrichments' = failed_enrichments
                    + CountContact(r.results, FALSE)
              /\ AfterBatch(Len(enrich_input))
    /\ UNCHANGED <<stage, enabled_scrapers, enrich_input, loop_i, group,
                   batch, scraper_instances, status, started_in, invoked,
                   outcome, finished, all_projects, successful_scrapers,
                   failed_scrapers>>
    /\ UNCHANGED <<storeVars, recordVars, runVars, lateVars>>

\* a manager whose enabled list is what enable_scraper and disable_scraper
\* left, before a stage is called
InitBatch ==
    /\ storage_type = "google_sheets"
    /\ store = <<>>
    /\ StoreIdle
    /\ BatchFresh
    /\ enabled_scrapers \in EnabledLists
    /\ RecordIdle
    /\ RunIdle
    /\ PauseIdle
    /\ LateIdle

NextBatch ==
    \/ RunAllScrapers
    \/ ScraperBatchStart
    \/ \E u \in DOMAIN status : ScraperTaskEnds(u)
    \/ ScraperBatchReturns
    \/ \E n \in 0..MaxEnrich :
          EnrichProjects([k \in 1..n |-> ProjectToEnrich(k)])
    \/ EnrichBatchStart
    \/ \E u \in DOMAIN status : EnrichTaskEnds(u)
    \/ EnrichBatchReturns
    \/ SleepEnds

SpecBatch == InitBatch /\ [][NextBatch]_vars

(***************************************************************************)
(* Claims about the batched stages                                         *)
(***************************************************************************)
\* the units whose task has been created and has not ended
InFlight == {u \in DOMAIN status : status[u] = "running"}
\* the units whose task has been created
Started == {u \in DOMAIN status : started_in[u] # 0}
\* the stage has taken the results of its latest group
GroupTaken == pc \in {"sleep", "done"} /\ group > 0
\* the tasks of the latest group, in the order they were created
Tasks == IF stage = "collect" THEN scraper_instances ELSE batch
Ended(u) == status[u] = "done" /\ outcome[u].kind # "none"

\* C6: units run in consecutive groups of at most the stage's limit (3
\* scrapers, 5 records): never more than that many tasks are in flight, the
\* started units are a prefix of the input cut into consecutive groups of at
\* most that size, and a unit of a later group has a task only when every
\* unit of every earlier group has ended.
C6_GroupsAndBarrier ==
    /\ stage = "collect" => Cardinality(InFlight) <= 3
    /\ stage = "enrich" => Cardinality(InFlight) <= 5
    /\ \A a \in DOMAIN status, b \in Started :
          a < b => /\ a \in Started
                   /\ started_in[a] <= started_in[b]
    /\ \A g \in 1..group :
          Cardinality({u \in Started : started_in[u] = g})
             <= (IF stage = "collect" THEN 3 ELSE 5)
    /\ \A a \in Started, b \in Started :
          started_in[a] < started_in[b] => status[a] = "done"

\* a second group is in flight after a first group of full size
C6_Witness ==
    /\ stage = "enrich"
    /\ group = 2
    /\ InFlight # {}
    /\ Cardinality({u \in Started : started_in[u] = 1}) = 5

\* what the stage must hold for unit u once its group's results are taken:
\* the unit's own result, or the failed outcome that stands for its exception
OwnOutcome(u) ==
    IF stage = "collect"
    THEN IF outcome[u].kind = "raised"
         THEN [kind |-> "returned", source |-> enabled_scrapers[u],
               success |-> FALSE, projects |-> <<>>]
         ELSE outcome[u]
    ELSE IF outcome[u].kind = "raised" THEN enrich_input[u]
         ELSE outcome[u].project

\* C7: a unit that fails or raises gives a failed outcome for itself only:
\* the stage never ends by raising, when a group's results are taken every
\* one of its units has ended and stands in the results with its own
\* outcome (whatever its siblings did), and when the stage returns every
\* unit of every group has run.
C7_FailureIsolated ==
    /\ pc # "raised"
    /\ GroupTaken =>
          /\ \A u \in SeqRange(batch) : Ended(u)
          /\ Len(batch_results) = Len(Tasks)
          /\ \A j \in DOMAIN Tasks : batch_results[j] = OwnOutcome(Tasks[j])
    /\ pc = "done" => \A u \in DOMAIN status : Ended(u)

\* a stage has returned although a task of its first group raised, next to
\* a sibling that succeeded, and a later group ran
C7_Witness ==
    /\ pc = "done"
    /\ stage = "collect"
    /\ group >= 2
    /\ \E u \in Started, v \in Started :
          /\ started_in[u] = 1 /\ started_in[v] = 1
          /\ outcome[u].kind = "raised"
          /\ outcome[v].kind = "returned" /\ outcome[v].success

\* the enrichment of input record k: what its task returned, or the record
\* itself where the task raised
EnrichmentOf(k) ==
    IF outcome[k].kind = "returned" THEN outcome[k].project
    ELSE enrich_input[k]

\* C8: batch output keeps the input order whatever order the tasks end in:
\* outcome j that _run_scraper_batch returns is the outcome of the j-th
\* scraper it was given and names that scraper as its source, and element k
\* of the list enrich_projects builds is the enrichment of input record k
\* (the returned list being as long as the input), for inputs shorter than,
\* equal to and longer than the limit.
C8_OrderPreserved ==
    /\ stage = "collect" /\ GroupTaken =>
          /\ Len(batch_results) = Len(scraper_instances)
          /\ \A j \in DOMAIN scraper_instances :
                /\ batch_results[j].source =
                      enabled_scrapers[scraper_instances[j]]
                /\ outcome[scraper_instances[j]].kind = "returned" =>
                      batch_results[j] = outcome[scraper_instances[j]]
                /\ outcome[scraper_instances[j]].kind = "raised" =>
                      /\ ~batch_results[j].success
                      /\ batch_results[j].projects = <<>>
    /\ stage = "enrich" =>
          /\ Len(enriched_projects) <= Len(enrich_input)
          /\ \A k \in DOMAIN enriched_projects :
                /\ enriched_projects[k] = EnrichmentOf(k)
                /\ enriched_projects[k].project_name =
                      enrich_input[k].project_name
          /\ pc = "done" => Len(enriched_projects) = Len(enrich_input)

\* the first group of a list longer than the limit has been taken: its
\* tasks ended out of input order, one raised and one found an e-mail
C8_Witness ==
    /\ stage = "enrich"
    /\ pc = "sleep"
    /\ Len(enrich_input) > 5
    /\ Len(finished) = 5
    /\ finished[1] > finished[5]
    /\ outcome[finished[1]].kind = "raised"
    /\ \E k \in DOMAIN enriched_projects :
          Truthy(enriched_projects[k].email)

\* C9: in a run_all_scrapers call no task is created twice for an enabled
\* scraper, and when the call returns exactly one task has been created,
\* and has ended, for every scraper of the enabled list, whatever the
\* list's length.
C9_EachScraperOnce ==
    stage = "collect" =>
        /\ \A u \in DOMAIN invoked : invoked[u] <= 1
        /\ pc = "done" =>
              \A name \in SeqRange(enabled_scrapers) :
                 /\ Cardinality({u \in DOMAIN invoked :
                                    enabled_scrapers[u] = name}) = 1
                 /\ \A u \in DOMAIN invoked :
                       enabled_scrapers[u] = name =>
                          invoked[u] = 1 /\ Ended(u)

\* a run over a list whose length is not a multiple of the limit returned
C9_Witness ==
    /\ stage = "collect"
    /\ pc = "done"
    /\ Len(enabled_scrapers) = 7
    /\ group = 3

\* the records of the units 1..k whose outcome is successful, in order
RECURSIVE SuccessfulRecords(_)
SuccessfulRecords(k) ==
    IF k = 0 THEN <<>>
    ELSE SuccessfulRecords(k - 1) \o
            (IF outcome[k].kind = "returned" /\ outcome[k].success
             THEN outcome[k].projects ELSE <<>>)

\* C10: a scraper whose outcome is failed (success false, or its task
\* raised) has no record in the list run_all_scrapers returns, even when
\* its result carries records, and every record of every successful scraper
\* is in that list: the list is the successful results' records, in order.
C10_OnlySuccessfulRecords ==
    stage = "collect" =>
        /\ \A r \in DOMAIN all_projects :
              \E u \in DOMAIN outcome :
                 /\ Ended(u)
                 /\ outcome[u].kind = "returned" /\ outcome[u].success
                 /\ all_projects[r].source = enabled_scrapers[u]
        /\ pc = "done" =>
              all_projects = SuccessfulRecords(Len(enabled_scrapers))

\* a run returned in which a failed result carried a record, a task
\* raised, and a scraper succeeded
C10_Witness ==
    /\ stage = "collect"
    /\ pc = "done"
    /\ \E u \in DOMAIN outcome :
          /\ outcome[u].kind = "returned" /\ ~outcome[u].success
          /\ outcome[u].projects # <<>>
    /\ \E u \in DOMAIN outcome : outcome[u].kind = "raised"
    /\ \E u \in DOMAIN outcome :
          outcome[u].kind = "returned" /\ outcome[u].success
    /\ all_projects # <<>>

(***************************************************************************)
(* A record from the scraper to the store.  Here the fields are the        *)
(* strings the scraper extracted, character by character, so that the      *)
(* cleaning __post_init__ does is computed as the code computes it.        *)
(***************************************************************************)
HttpPrefix == <<"h", "t", "t", "p", ":", "/", "/">>
HttpsPrefix == <<"h", "t", "t", "p", "s", ":", "/", "/">>
TwitterPlatform == <<"t", "w", "i", "t", "t", "e", "r", ".", "c", "o", "m">>
LinkedinPlatform == <<"l", "i", "n", "k", "e", "d", "i", "n", ".", "c", "o", "m">>
TwitterBase == <<"h", "t", "t", "p", "s", ":", "/", "/", "t", "w", "i", "t", "t", "e", "r", ".", "c", "o", "m", "/">>
LinkedinBase == <<"h", "t", "t", "p", "s", ":", "/", "/", "l", "i", "n", "k", "e", "d", "i", "n", ".", "c", "o", "m", "/", "c", "o", "m", "p", "a", "n", "y", "/">>

\* "sub in s" for two strings
Contains(s, sub) ==
    \E k \in 0..(Len(s) - Len(sub)) : SubSeq(s, k + 1, k + Len(sub)) = sub

\* url.startswith(('http://', 'https://'))
HasHttpScheme(url) == startswith(url, HttpPrefix) \/ startswith(url, HttpsPrefix)

\* the characters of s before the first of "/", "?", "#"
RECURSIVE UpToDelimiter(_)
UpToDelimiter(s) ==
    IF s = <<>> \/ Head(s) \in {"/", "?", "#"} THEN <<>>
    ELSE <<Head(s)>> \o UpToDelimiter(Tail(s))

\* urlparse(url).netloc of a string that starts with http:// or https://
urlparse_netloc(url) ==
    IF startswith(url, HttpsPrefix)
    THEN UpToDelimiter(SubSeq(url, Len(HttpsPrefix) + 1, Len(url)))
    ELSE UpToDelimiter(SubSeq(url, Len(HttpPrefix) + 1, Len(url)))

\* ProjectData._clean_url
_clean_url(url) ==
    IF ~Truthy(url) THEN None
    ELSE IF strip(url) = <<>> THEN None
    ELSE LET stripped == strip(url)
             with_scheme == IF HasHttpScheme(stripped) THEN stripped
                            ELSE HttpsPrefix \o stripped
         IN  IF urlparse_netloc(with_scheme) # <<>> THEN with_scheme
             ELSE None

\* ProjectData._clean_social_url
_clean_social_url(url, platform) ==
    IF ~Truthy(url) THEN None
    ELSE IF strip(url) = <<>> THEN None
    ELSE LET stripped == strip(url)
             handle == IF platform = TwitterPlatform /\ Head(stripped) = "@"
                       THEN TwitterBase \o Tail(stripped)
                       ELSE stripped
             with_scheme ==
                 IF HasHttpScheme(handle) THEN handle
                 ELSE IF Contains(handle, platform) THEN HttpsPrefix \o handle
                 ELSE IF platform = TwitterPlatform THEN TwitterBase \o handle
                 ELSE IF platform = LinkedinPlatform
                      THEN LinkedinBase \o handle
                 ELSE handle
         IN  IF /\ HasHttpScheme(with_scheme)
                /\ Contains(urlparse_netloc(with_scheme), platform)
             THEN with_scheme
             ELSE None

\* "if self.email: self.email = self.email.strip().lower()"
clean_email(email) == IF Truthy(email) THEN lower(strip(email)) ELSE email

\* "if self.project_name: self.project_name = self.project_name.strip()"
clean_name(name) == IF Truthy(name) THEN strip(name) ELSE name

\* ProjectData(...): the dataclass constructor followed by __post_init__
NewProjectData(name, website, twitter, linkedin, email, source, date_added) ==
    [project_name |-> clean_name(name),
     website |-> _clean_url(website),
     twitter |-> _clean_social_url(twitter, TwitterPlatform),
     linkedin |-> _clean_social_url(linkedin, LinkedinPlatform),
     email |-> clean_email(email),
     source |-> source,
     date_added |-> date_added]

\* A bug the validity test could have: the name alone is looked at.
is_valid_name_only(project) == Truthy(project.project_name)

\* ProjectData.is_valid
is_valid(project) ==
    /\ Truthy(project.project_name)
    /\ Truthy(project.website) \/ Truthy(project.twitter)

\* what a scraper extracts from a page or an API answer for one entity
RawNames ==
    {None,
     <<>>,
     <<" ">>,
     <<"A", "l", "p", "h", "a">>,
     <<" ", "A", "l", "p", "h", "a", " ">>}
RawWebsites ==
    {None,
     <<" ">>,
     <<"a", "l", "p", "h", "a", ".", "x", "y", "z">>,
     <<"h", "t", "t", "p", "s", ":", "/", "/", "a", "l", "p", "h", "a", ".", "x", "y", "z", "/", "a">>,
     <<"h", "t", "t", "p", "s", ":", "/", "/">>}
RawTwitters ==
    {None,
     <<"@", "a", "l", "p", "h", "a">>,
     <<"a", "l", "p", "h", "a">>,
     <<"h", "t", "t", "p", "s", ":", "/", "/", "t", "w", "i", "t", "t", "e", "r", ".", "c", "o", "m", "/", "a", "l", "p", "h", "a">>,
     <<"h", "t", "t", "p", "s", ":", "/", "/", "e", "v", "i", "l", ".", "x", "y", "z", "/", "t", "w", "i", "t", "t", "e", "r", ".", "c", "o", "m">>}
RawLinkedins ==
    {None,
     <<"a", "l", "p", "h", "a">>,
     <<"h", "t", "t", "p", "s", ":", "/", "/", "l", "i", "n", "k", "e", "d", "i", "n", ".", "c", "o", "m", "/", "c", "o", "m", "p", "a", "n", "y", "/", "a", "l", "p", "h", "a">>}
RawEmails ==
    {None,
     <<" ", "I", "n", "f", "o", "@", "A", "l", "p", "h", "a", ".", "x", "y", "z", " ">>,
     <<" ">>}
RawEntities ==
    [name : RawNames, website : RawWebsites, twitter : RawTwitters,
     linkedin : RawLinkedins, email : RawEmails]

\* two of the scrapers, by the names and addresses their constructors pass
ScraperObjects ==
    {[source_name |-> "CryptoRank",
      source_url |-> "https://cryptorank.io/funding-rounds"],
     [source_name |-> "ICO Drops", source_url |-> "https://icodrops.com/"]}

\* the days datetime.now() can fall on when a record is constructed
Dates == {"2025-06-27", "2025-06-28"}

\* BaseScraper.create_project: the record in a one-element sequence, or the
\* empty sequence for None; today is the day the date_added default gives
create_project(self, name, website, twitter, linkedin, email, today) ==
    LET project == NewProjectData(name, website, twitter, linkedin, email,
                                  self.source_url, today)
    IN  IF is_valid(project) THEN <<project>> ELSE <<>>

\* ScrapingResult(source=...)
ScrapingResult(source) == [source |-> source, projects |-> <<>>, success |-> TRUE]

\* A bug add_project could have: the record keeps the source it came with.
add_project_keeps_source(self, project) ==
    IF is_valid(project)
    THEN [self EXCEPT !.projects = Append(@, project)]
    ELSE self

\* ScrapingResult.add_project
add_project(self, project) ==
    IF is_valid(project)
    THEN [self EXCEPT !.projects = Append(@, [project EXCEPT !.source = self.source])]
    ELSE self

\* what the e-mail service and the LinkedIn service can find
FoundEmail == <<"T", "e", "a", "m", "@", "A", "l", "p", "h", "a", ".", "x", "y", "z">>
FoundLinkedin == <<"h", "t", "t", "p", "s", ":", "/", "/", "l", "i", "n", "k", "e", "d", "i", "n", ".", "c", "o", "m", "/", "c", "o", "m", "p", "a", "n", "y", "/", "a", "l", "p", "h", "a", "-", "l", "a", "b", "s">>

\* EnrichmentResult with its success and result fields
EnrichmentResult(success, value) ==
    [kind |-> "returned", success |-> success, result |-> value]

\* the ways a call of a lookup service can end: a value found, nothing
\* found, a failure reported in the result, an exception out of the
\* service, an exception out of the task that wraps the service
LookupOutcomes(found) ==
    {EnrichmentResult(TRUE, found),
     EnrichmentResult(TRUE, None),
     EnrichmentResult(FALSE, None),
     [kind |-> "service_raised", success |-> FALSE, result |-> None],
     [kind |-> "task_raised", success |-> FALSE, result |-> None]}

\* A bug the skip could have: the service is asked whatever the field holds.
_enrich_field_always_asks(present, lookup) ==
    [called |-> TRUE,
     result |-> IF lookup.kind = "service_raised"
                THEN EnrichmentResult(FALSE, None)
                ELSE lookup]

\* _enrich_email and _enrich_linkedin: present is the field of the copy,
\* lookup is how the service call ends if it is made
_enrich_field(present, lookup) ==
    IF Truthy(present)
    THEN [called |-> FALSE, result |-> EnrichmentResult(TRUE, present)]
    ELSE [called |-> TRUE,
          result |-> IF lookup.kind = "service_raised"
                     THEN EnrichmentResult(FALSE, None)
                     ELSE lookup]

\* "not isinstance(r, Exception) and r.success and r.result"
applies(task_result) ==
    /\ task_result.kind = "returned"
    /\ task_result.success
    /\ Truthy(task_result.result)

\* A bug the gather could have: an exception of one task discards the
\* results of both (the except branch returns the record as it came).
apply_results_all_or_nothing(copy, email_task, linkedin_task) ==
    IF email_task.result.kind = "task_raised" \/ linkedin_task.result.kind = "task_raised"
    THEN copy
    ELSE [copy EXCEPT
            !.email = IF applies(email_task.result)
                      THEN email_task.result.result ELSE @,
            !.linkedin = IF applies(linkedin_task.result)
                         THEN linkedin_task.result.result ELSE @]

\* the two "Apply ... enrichment result" statements
apply_results(copy, email_task, linkedin_task) ==
    [copy EXCEPT
        !.email = IF applies(email_task.result)
                  THEN email_task.result.result ELSE @,
        !.linkedin = IF applies(linkedin_task.result)
                     THEN linkedin_task.result.result ELSE @]

\* A bug the function could have: no copy is made, and the results are
\* assigned to the record it was given.
_enrich_single_project_in_place(project, email_lookup, linkedin_lookup, copy_raises) ==
    IF copy_raises
    THEN [project |-> project, input |-> project,
          email_called |-> FALSE, linkedin_called |-> FALSE]
    ELSE LET email_task == _enrich_field(project.email, email_lookup)
             linkedin_task == _enrich_field(project.linkedin, linkedin_lookup)
             enriched == apply_results(project, email_task, linkedin_task)
         IN  [project |-> enriched,
              input |-> enriched,
              email_called |-> email_task.called,
              linkedin_called |-> linkedin_task.called]

\* EnrichmentManager._enrich_single_project: the record returned, with the
\* record it was given as the call leaves it, and the calls made on the two
\* services; copy_raises is an exception inside the try block before the
\* tasks are created
_enrich_single_project(project, email_lookup, linkedin_lookup, copy_raises) ==
    IF copy_raises
    THEN [project |-> project, input |-> project,
          email_called |-> FALSE, linkedin_called |-> FALSE]
    ELSE LET copy == NewProjectData(project.project_name, project.website,
                                    project.twitter, project.linkedin,
                                    project.email, project.source,
                                    project.date_added)
             email_task == _enrich_field(copy.email, email_lookup)
             linkedin_task == _enrich_field(copy.linkedin, linkedin_lookup)
         IN  [project |-> apply_results(copy, email_task, linkedin_task),
              input |-> project,
              email_called |-> email_task.called,
              linkedin_called |-> linkedin_task.called]

\* a scraper extracts one entity and calls create_project on it
CreateProject(self, raw) ==
    /\ rec_pc = "idle"
    /\ rec_pc' = "created"
    /\ scraper' = <<self>>
    /\ raw_entity' = <<raw>>
    /\ \E today \in Dates :
          created' = create_project(self, raw.name, raw.website, raw.twitter,
                                    raw.linkedin, raw.email, today)
    /\ scraping_result' = <<ScrapingResult(self.source_name)>>
    /\ UNCHANGED <<lookups, enrichment>>
    /\ UNCHANGED <<storeVars, batchVars, runVars, pauseVars, lateVars>>

\* "if project: result.add_project(project)", and the result is returned
AddProject ==
    /\ rec_pc = "created"
    /\ rec_pc' = "collected"
    /\ scraping_result' =
         IF created # <<>>
         THEN <<add_project(scraping_result[1], created[1])>>
         ELSE scraping_result
    /\ UNCHANGED <<raw_entity, scraper, created, lookups, enrichment>>
    /\ UNCHANGED <<storeVars, batchVars, runVars, pauseVars, lateVars>>

\* the enrichment of the collected record
EnrichSingleProject(email_lookup, linkedin_lookup, copy_raises) ==
    /\ rec_pc = "collected"
    /\ scraping_result[1].projects # <<>>
    /\ rec_pc' = "enriched"
    /\ lookups' = <<[email |-> email_lookup, linkedin |-> linkedin_lookup,
                     copy_raises |-> copy_raises]>>
    /\ \E e \in {_enrich_single_project(scraping_result[1].projects[1],
                                         email_lookup, linkedin_lookup,
                                         copy_raises)} :
          /\ enrichment' = <<e>>
          /\ scraping_result' =
                <<[scraping_result[1] EXCEPT !.projects = <<e.input>>]>>
    /\ UNCHANGED <<raw_entity, scraper, created>>
    /\ UNCHANGED <<storeVars, batchVars, runVars, pauseVars, lateVars>>

InitRecord ==
    /\ StoreIdle
    /\ storage_type = "airtable"
    /\ store = <<>>
    /\ BatchIdle
    /\ RecordIdle
    /\ RunIdle
    /\ PauseIdle
    /\ LateIdle

ScrapeEntity ==
    \E self \in ScraperObjects, raw \in RawEntities : CreateProject(self, raw)

EnrichCollected ==
    \E email_lookup \in LookupOutcomes(FoundEmail),
       linkedin_lookup \in LookupOutcomes(FoundLinkedin),
       copy_raises \in BOOLEAN :
        EnrichSingleProject(email_lookup, linkedin_lookup, copy_raises)

NextRecord ==
    \/ ScrapeEntity
    \/ AddProject
    \/ EnrichCollected

SpecRecord == InitRecord /\ [][NextRecord]_vars

(***************************************************************************)
(* Claims about one record on its way from the scraper to the store        *)
(***************************************************************************)
\* the record the scraper's result holds, and the record enrichment returned
CollectedRecords == IF scraping_result = <<>> THEN <<>> ELSE scraping_result[1].projects
Enriched == enrichment[1].project
EnrichmentInput == scraping_result[1].projects[1]

\* a name that is there, trimmed and not empty, and a website or a twitter
ValidRecord(p) ==
    /\ p.project_name # None
    /\ p.project_name # <<>>
    /\ p.project_name = strip(p.project_name)
    /\ \/ p.website # None /\ p.website # <<>>
       \/ p.twitter # None /\ p.twitter # <<>>

\* C11: every record a scraper's result holds is valid (a trimmed,
\* non-empty name and a website or a twitter), and the record enrichment
\* returns for it, which is the one handed to store_projects, is valid too.
C11_ValidThroughEnrichment ==
    /\ \A k \in DOMAIN CollectedRecords : ValidRecord(CollectedRecords[k])
    /\ enrichment # <<>> => ValidRecord(Enriched)

\* an entity whose name came with blanks around it and without a website
\* was collected and enriched with a found e-mail address
C11_Witness ==
    /\ rec_pc = "enriched"
    /\ raw_entity[1].name = <<" ", "A", "l", "p", "h", "a", " ">>
    /\ raw_entity[1].website = None
    /\ EnrichmentInput.email = None
    /\ Enriched.email = FoundEmail
    /\ ValidRecord(Enriched)

\* an entity without a usable website or twitter was dropped by the scraper
C11_DroppedWitness ==
    /\ rec_pc = "collected"
    /\ raw_entity[1].name = <<"A", "l", "p", "h", "a">>
    /\ raw_entity[1].website = <<"h", "t", "t", "p", "s", ":", "/", "/">>
    /\ raw_entity[1].twitter = <<"h", "t", "t", "p", "s", ":", "/", "/", "e", "v", "i", "l", ".", "x", "y", "z", "/", "t", "w", "i", "t", "t", "e", "r", ".", "c", "o", "m">>
    /\ CollectedRecords = <<>>

\* C12: every record a ScrapingResult holds has the result's source (the
\* name of the scraper that made the result) as its source, whatever
\* source the record had when it was added.
C12_SourceIsResultSource ==
    scraping_result # <<>> =>
        /\ scraping_result[1].source = scraper[1].source_name
        /\ \A k \in DOMAIN CollectedRecords :
             CollectedRecords[k].source = scraping_result[1].source

\* create_project gave the record the scraper's address as its source, and
\* the record in the result has the scraper's name
C12_Witness ==
    /\ rec_pc = "collected"
    /\ created # <<>>
    /\ created[1].source = scraper[1].source_url
    /\ created[1].source # scraping_result[1].source
    /\ Len(CollectedRecords) = 1
    /\ CollectedRecords[1].source = "ICO Drops"

\* a field that holds a value
Populated(value) == value # None /\ value # <<>>

\* C13: for a record whose email (or linkedin) holds a value when it is
\* given to enrichment, the service for that field is not called and the
\* field has the same value afterwards, whatever the service would have
\* returned and however the other lookup ends.
C13_PopulatedFieldUntouched ==
    enrichment # <<>> =>
        /\ Populated(EnrichmentInput.email) =>
             /\ ~enrichment[1].email_called
             /\ Enriched.email = EnrichmentInput.email
        /\ Populated(EnrichmentInput.linkedin) =>
             /\ ~enrichment[1].linkedin_called
             /\ Enriched.linkedin = EnrichmentInput.linkedin

\* the record had an e-mail address and no LinkedIn page; the e-mail service
\* would have found another address and the LinkedIn lookup raised
C13_Witness ==
    /\ rec_pc = "enriched"
    /\ Populated(EnrichmentInput.email)
    /\ EnrichmentInput.linkedin = None
    /\ lookups[1].email.result = FoundEmail
    /\ lookups[1].email.result # EnrichmentInput.email
    /\ lookups[1].linkedin.kind = "task_raised"
    /\ ~lookups[1].copy_raises
    /\ ~enrichment[1].email_called
    /\ enrichment[1].linkedin_called
    /\ Enriched.email = EnrichmentInput.email

\* how a lookup ended: with a failure (reported or raised), with a value,
\* or successfully without a value
LookupFailed(l) == l.kind # "returned" \/ ~l.success
LookupFound(l) == l.kind = "returned" /\ l.success /\ Populated(l.result)
LookupNoValue(l) == l.kind = "returned" /\ l.success /\ ~Populated(l.result)

\* C15: a lookup that fails or raises leaves its field as it was, and so
\* does a successful lookup without a value; the value the other lookup
\* found is applied to the record all the same.
C15_FailedLookupIsolated ==
    enrichment # <<>> =>
        /\ (LookupFailed(lookups[1].email) \/ LookupNoValue(lookups[1].email))
             => Enriched.email = EnrichmentInput.email
        /\ (LookupFailed(lookups[1].linkedin) \/ LookupNoValue(lookups[1].linkedin))
             => Enriched.linkedin = EnrichmentInput.linkedin
        /\ (/\ LookupFailed(lookups[1].email)
            /\ enrichment[1].linkedin_called
            /\ LookupFound(lookups[1].linkedin))
             => Enriched.linkedin = lookups[1].linkedin.result
        /\ (/\ LookupFailed(lookups[1].linkedin)
            /\ enrichment[1].email_called
            /\ LookupFound(lookups[1].email))
             => Enriched.email = lookups[1].email.result

\* both services were called; the e-mail lookup raised and the LinkedIn
\* lookup found a page, which the returned record has
C15_Witness ==
    /\ rec_pc = "enriched"
    /\ enrichment[1].email_called
    /\ enrichment[1].linkedin_called
    /\ lookups[1].email.kind = "task_raised"
    /\ LookupFound(lookups[1].linkedin)
    /\ EnrichmentInput.email = None
    /\ Enriched.email = None
    /\ EnrichmentInput.linkedin = None
    /\ Enriched.linkedin = FoundLinkedin

\* a successful lookup without a value left the field as it was
C15_NoValueWitness ==
    /\ rec_pc = "enriched"
    /\ enrichment[1].email_called
    /\ LookupNoValue(lookups[1].email)
    /\ Enriched.email = EnrichmentInput.email

(***************************************************************************)
(* A claim about the length of the list enrich_projects returns            *)
(***************************************************************************)
\* the records whose task has ended
EndedUnits == {u \in DOMAIN status : status[u] = "done"}

\* C14: enrich_projects returns as many records as it was given: each
\* group adds one record per task, whether the task found something, found
\* nothing or raised, the call does not end by raising, and when it returns
\* the list is as long as the input.
C14_CountPreserved ==
    stage = "enrich" =>
        /\ pc # "raised"
        /\ pc \in {"sleep", "loop", "done"} =>
             Len(enriched_projects) = Cardinality(EndedUnits)
        /\ pc \in {"sleep", "done"} /\ enrich_input # <<>> =>
             Len(batch_results) = Len(batch)
        /\ pc = "done" =>
             /\ EndedUnits = DOMAIN enrich_input
             /\ DOMAIN enriched_projects = DOMAIN enrich_input

\* a list longer than the limit was enriched; a task raised, one returned
\* the record as it was and one returned it with an e-mail address
C14_Witness ==
    /\ stage = "enrich"
    /\ pc = "done"
    /\ Len(enrich_input) > max_concurrent_enrichments
    /\ Len(enriched_projects) = Len(enrich_input)
    /\ \E u \in DOMAIN outcome : outcome[u].kind = "raised"
    /\ \E u \in DOMAIN outcome :
          /\ outcome[u].kind = "returned"
          /\ outcome[u].project = enrich_input[u]
    /\ \E u \in DOMAIN outcome :
          /\ outcome[u].kind = "returned"
          /\ outcome[u].project # enrich_input[u]

\* the empty list was enriched: no task, and the empty list is returned
C14_EmptyWitness ==
    /\ stage = "enrich"
    /\ pc = "done"
    /\ enrich_input = <<>>
    /\ enriched_projects = <<>>

(***************************************************************************)
(* Web3DataAggregator.run_full_aggregation.  An invocation is a coroutine  *)
(* on the one orchestrator object; it runs from one await to the next, and *)
(* other invocations may run in between.  What a stage returns or raises   *)
(* is drawn from the outcomes that stage has.                              *)
(***************************************************************************)
\* the invocations of run_full_aggregation a caller makes on the object
Invocations == {"first", "second"}

\* the largest number of records run_all_scrapers returns
MaxScraped == 2

\* the two messages run_full_aggregation raises itself
InvalidConfigurationError ==
    "Invalid configuration. Please check your environment variables."
StorageInitError == "Failed to initialize storage backend"

\* what goes wrong inside the backend's initialize, inside a stage, and
\* inside the backend's store_projects
InitCauses == {"credentials file not found"}
StageErrors == {"stage raised"}
StoreErrors == {"APIError: quota exceeded"}

NoSummary == [returned |-> FALSE]

\* an invocation not yet made
IdleRun ==
    [pc |-> "idle", steps |-> 0, validated |-> "none", initialized |-> "none",
     collected |-> "none", scraped |-> 0, cause |-> "none",
     summary |-> NoSummary]

\* the three dictionaries run_full_aggregation returns
EmptySummary(duration) ==
    [success |-> TRUE, total_projects |-> 0, new_projects |-> 0,
     duration |-> duration, message |-> "No new projects found"]
SuccessSummary(total, stored, skipped, duration) ==
    [success |-> TRUE, total_projects |-> total, new_projects |-> stored,
     skipped_projects |-> skipped, duration |-> duration,
     storage_type |-> storage_type]
FailureSummary(e, duration) ==
    [success |-> FALSE, error |-> e, duration |-> duration]

\* A bug the function could have: no except clause, the exception leaves it.
run_error_propagates(self, e) ==
    [self EXCEPT !.pc = "raised", !.steps = @ + 1]

\* "except Exception as e": the run is over and the summary is returned
run_error(self, e) ==
    [self EXCEPT !.pc = "returned", !.steps = @ + 1,
                 !.summary = FailureSummary(e, self.steps + 1)]

\* A bug the test could have: the enrichment and the store are entered
\* with an empty list.
nothing_scraped_overlooked(n) == FALSE

\* "if not scraped_projects"
nothing_scraped(n) == n = 0

\* A bug the sequence could have: after enrichment the run goes back to
\* collecting.
AwaitedAfterRetrying(awaited) ==
    CASE awaited = "collect" -> "enrich"
      [] awaited = "enrich" -> "collect"

\* the stage awaited after a stage has returned records
AwaitedAfter(awaited) ==
    CASE awaited = "collect" -> "enrich"
      [] awaited = "enrich" -> "store"

\* an entry of the log of stages: a stage is entered or left
Event(awaited, what) == <<awaited, what>>

\* A bug the function could have: what validate returned is not looked at.
RunFullAggregationUnvalidated(r, valid) ==
    /\ run[r].pc = "idle"
    /\ run' = [run EXCEPT ![r] =
                 [@ EXCEPT !.pc = "init_storage", !.steps = 1,
                           !.validated = IF valid THEN "true" ELSE "false"]]
    /\ UNCHANGED <<stage_log, storage_ready>>
    /\ UNCHANGED <<storeVars, batchVars, recordVars, pauseVars, lateVars>>

\* run_full_aggregation up to its first await: run_start, validate, and the
\* call of storage_manager.initialize
RunFullAggregation(r, valid) ==
    /\ run[r].pc = "idle"
    /\ run' = [run EXCEPT ![r] =
                 IF valid
                 THEN [@ EXCEPT !.pc = "init_storage", !.steps = 1,
                                !.validated = "true"]
                 ELSE run_error([@ EXCEPT !.validated = "false"],
                                InvalidConfigurationError)]
    /\ UNCHANGED <<stage_log, storage_ready>>
    /\ UNCHANGED <<storeVars, batchVars, recordVars, pauseVars, lateVars>>

\* storage_manager.initialize returns: True, or False when the backend
\* returned False or raised (cause is what went wrong in the backend)
StorageInitializeReturns(r, ok, cause) ==
    /\ run[r].pc = "init_storage"
    /\ storage_ready' = (storage_ready \/ ok)
    /\ IF ok
       THEN /\ run' = [run EXCEPT ![r].pc = "collect", ![r].steps = @ + 1,
                                  ![r].initialized = "true"]
            /\ stage_log' = [stage_log EXCEPT
                               ![r] = Append(@, Event("collect", "start"))]
       ELSE /\ run' = [run EXCEPT ![r] =
                         run_error([@ EXCEPT !.cause = cause,
                                             !.initialized = "false"],
                                   StorageInitError)]
            /\ UNCHANGED stage_log
    /\ UNCHANGED <<storeVars, batchVars, recordVars, pauseVars, lateVars>>

\* run_all_scrapers returns n records
RunAllScrapersReturns(r, n) ==
    /\ run[r].pc = "collect"
    /\ IF nothing_scraped(n)
       THEN /\ run' = [run EXCEPT ![r] =
                         [@ EXCEPT !.pc = "returned", !.steps = @ + 1,
                                   !.collected = "returned", !.scraped = n,
                                   !.summary = EmptySummary(run[r].steps + 1)]]
            /\ stage_log' = [stage_log EXCEPT
                               ![r] = Append(@, Event("collect", "end"))]
       ELSE /\ run' = [run EXCEPT ![r] =
                         [@ EXCEPT !.pc = AwaitedAfter("collect"),
                                   !.steps = @ + 1,
                                   !.collected = "returned", !.scraped = n]]
            /\ stage_log' = [stage_log EXCEPT
                               ![r] = @ \o <<Event("collect", "end"),
                                              Event(AwaitedAfter("collect"), "start")>>]
    /\ UNCHANGED storage_ready
    /\ UNCHANGED <<storeVars, batchVars, recordVars, pauseVars, lateVars>>

\* the stage an invocation awaits raises
StageRaises(r, e) ==
    /\ run[r].pc \in {"collect", "enrich"}
    /\ run' = [run EXCEPT ![r] =
                 run_error([@ EXCEPT !.collected =
                                IF run[r].pc = "collect" THEN "raised" ELSE @],
                           e)]
    /\ stage_log' = [stage_log EXCEPT ![r] = Append(@, Event(run[r].pc, "end"))]
    /\ UNCHANGED storage_ready
    /\ UNCHANGED <<storeVars, batchVars, recordVars, pauseVars, lateVars>>

\* the value of the return statement after store_projects
ReturnSuccess(self, stored) ==
    [self EXCEPT !.pc = "returned", !.steps = @ + 1,
                 !.summary = SuccessSummary(self.scraped, stored,
                                            self.scraped - stored,
                                            self.steps + 1)]

\* enrich_projects returns (as many records as it was given)
EnrichProjectsReturns(r) ==
    /\ run[r].pc = "enrich"
    /\ run' = [run EXCEPT ![r].pc = AwaitedAfter("enrich"), ![r].steps = @ + 1]
    /\ stage_log' = [stage_log EXCEPT
                       ![r] = @ \o <<Event("enrich", "end"),
                                      Event(AwaitedAfter("enrich"), "start")>>]
    /\ UNCHANGED storage_ready
    /\ UNCHANGED <<storeVars, batchVars, recordVars, pauseVars, lateVars>>

\* storage_manager.store_projects returns (stored, skipped), and the run
\* returns its summary
StoreProjectsReturns(r, stored) ==
    /\ run[r].pc = "store"
    /\ stored <= run[r].scraped
    /\ run' = [run EXCEPT ![r] = ReturnSuccess(@, stored)]
    /\ stage_log' = [stage_log EXCEPT ![r] = Append(@, Event("store", "end"))]
    /\ UNCHANGED storage_ready
    /\ UNCHANGED <<storeVars, batchVars, recordVars, pauseVars, lateVars>>

\* storage_manager.store_projects logs the backend's exception and raises
\* it again
StoreProjectsRaises(r, e) ==
    /\ run[r].pc = "store"
    /\ run' = [run EXCEPT ![r] = run_error([@ EXCEPT !.cause = e], e)]
    /\ stage_log' = [stage_log EXCEPT ![r] = Append(@, Event("store", "end"))]
    /\ UNCHANGED storage_ready
    /\ UNCHANGED <<storeVars, batchVars, recordVars, pauseVars, lateVars>>

InitRun ==
    /\ storage_type \in {"google_sheets", "airtable"}
    /\ store = <<>>
    /\ StoreIdle
    /\ BatchIdle
    /\ RecordIdle
    /\ run = [r \in Invocations |-> IdleRun]
    /\ stage_log = [r \in Invocations |-> <<>>]
    /\ storage_ready = FALSE
    /\ PauseIdle
    /\ LateIdle

\* what an invocation that has been made does next
RunStep(r) ==
    \/ \E ok \in BOOLEAN, cause \in InitCauses :
          StorageInitializeReturns(r, ok, IF ok THEN "none" ELSE cause)
    \/ \E n \in 0..MaxScraped : RunAllScrapersReturns(r, n)
    \/ \E e \in StageErrors : StageRaises(r, e)
    \/ EnrichProjectsReturns(r)
    \/ \E stored \in 0..MaxScraped : StoreProjectsReturns(r, stored)
    \/ \E e \in StoreErrors : StoreProjectsRaises(r, e)

NextRun ==
    \/ \E r \in Invocations, valid \in BOOLEAN : RunFullAggregation(r, valid)
    \/ \E r \in Invocations : RunStep(r)

SpecRun == InitRun /\ [][NextRun]_vars

\* every stage an invocation awaits ends
SpecRunLive == SpecRun /\ \A r \in Invocations : WF_vars(RunStep(r))

(***************************************************************************)
(* Claims about a run of the whole pipeline                                *)
(***************************************************************************)
\* the stages of a complete run, entered and left
StageOrder ==
    <<Event("collect", "start"), Event("collect", "end"),
      Event("enrich", "start"), Event("enrich", "end"),
      Event("store", "start"), Event("store", "end")>>

\* the invocations that have been made and have not returned
InProgress == {r \in Invocations : run[r].pc \notin {"idle", "returned", "raised"}}

\* C16: within one invocation the stages are entered in the order collect,
\* enrich, store, each at most once and each only when the one before it
\* has been left; the stage the invocation is waiting for is the only one
\* it has entered and not left.
C16_StagesInOrder ==
    \A r \in Invocations :
        /\ Len(stage_log[r]) <= Len(StageOrder)
        /\ stage_log[r] = SubSeq(StageOrder, 1, Len(stage_log[r]))
        /\ run[r].pc \in {"collect", "enrich", "store"} =>
             /\ stage_log[r] # <<>>
             /\ stage_log[r][Len(stage_log[r])] = Event(run[r].pc, "start")
        /\ run[r].pc \in {"idle", "init_storage"} => stage_log[r] = <<>>
        /\ run[r].pc = "returned" /\ stage_log[r] # <<>> =>
             stage_log[r][Len(stage_log[r])][2] = "end"

\* an invocation went through the three stages and returned while the
\* other one was waiting for its enrichment
C16_Witness ==
    /\ run["first"].pc = "returned"
    /\ run["first"].summary.success
    /\ stage_log["first"] = StageOrder
    /\ run["second"].pc = "enrich"

\* C17: an invocation whose collection returned no record has returned a
\* success summary with total_projects = 0 and new_projects = 0, and has
\* entered neither the enrichment nor the store.
C17_NothingScraped ==
    \A r \in Invocations :
        run[r].collected = "returned" /\ run[r].scraped = 0 =>
            /\ stage_log[r] = SubSeq(StageOrder, 1, 2)
            /\ run[r].pc = "returned"
            /\ run[r].summary.success
            /\ run[r].summary.total_projects = 0
            /\ run[r].summary.new_projects = 0

\* collection returned the empty list and the invocation has returned
C17_Witness ==
    /\ run["first"].pc = "returned"
    /\ run["first"].collected = "returned"
    /\ run["first"].scraped = 0
    /\ run["first"].summary = EmptySummary(run["first"].steps)

\* the texts an error field can hold
ErrorTexts ==
    {InvalidConfigurationError, StorageInitError} \cup StageErrors \cup StoreErrors

\* the summary has a boolean success and a duration, and an error text when
\* success is false
StructuredSummary(summary) ==
    /\ {"success", "duration"} \subseteq DOMAIN summary
    /\ summary.success \in BOOLEAN
    /\ summary.duration \in Nat
    /\ ~summary.success =>
         /\ "error" \in DOMAIN summary
         /\ summary.error \in ErrorTexts

ReturnsSummary ==
    \A r \in Invocations :
        /\ run[r].pc # "raised"
        /\ run[r].pc = "returned" => StructuredSummary(run[r].summary)

\* C18: no invocation ends by raising, an invocation that has returned has
\* returned a summary with a boolean success, a duration and, when success
\* is false, an error text, and every invocation made returns (each stage
\* it waits for ending).
C18_AlwaysReturnsSummary ==
    /\ []ReturnsSummary
    /\ \A r \in Invocations : (run[r].pc # "idle") ~> (run[r].pc = "returned")

\* an invocation whose enrichment raised and one whose configuration was
\* invalid have both returned a failure summary
C18_Witness ==
    /\ run["first"].pc = "returned"
    /\ run["first"].collected = "returned"
    /\ stage_log["first"] = SubSeq(StageOrder, 1, 4)
    /\ ~run["first"].summary.success
    /\ run["first"].summary.error \in StageErrors
    /\ run["second"].pc = "returned"
    /\ run["second"].summary = FailureSummary(InvalidConfigurationError, 1)

\* C19: an invocation that ended because the storage backend could not be
\* initialized, or because persisting raised, returned success = false with
\* the causing storage error's text as its error.
C19_StorageErrorVerbatim ==
    \A r \in Invocations :
        run[r].pc = "returned" /\ run[r].cause # "none" =>
            /\ ~run[r].summary.success
            /\ run[r].summary.error = run[r].cause

\* persisting raised, and the summary's error is that exception's text
C19_StoreRaisedVerbatim ==
    /\ run["first"].pc = "returned"
    /\ run["first"].cause \in StoreErrors
    /\ run["first"].summary.error = run["first"].cause

\* initialization failed, and the summary's error is not what went wrong
C19_InitCauseLost ==
    /\ run["first"].pc = "returned"
    /\ run["first"].cause \in InitCauses
    /\ run["first"].summary.error = StorageInitError
    /\ run["first"].summary.error # run["first"].cause

\* C20: at most one invocation of run_full_aggregation is in progress on
\* the orchestrator at any time.
C20_SingleRunInFlight == Cardinality(InProgress) <= 1

\* both invocations are inside a stage at once
C20_TwoInFlight ==
    /\ run["first"].pc = "store"
    /\ run["second"].pc = "collect"

\* the four figures of a successful run
SuccessFigures == {"total_projects", "new_projects", "skipped_projects", "duration"}

\* C21: every summary returned with success = true holds the total count,
\* the newly admitted count, the count rejected as duplicates and the
\* duration, on the path through the store and on the path on which nothing
\* was scraped.
C21_SuccessSummaryComplete ==
    \A r \in Invocations :
        run[r].pc = "returned" /\ run[r].summary.success =>
            SuccessFigures \subseteq DOMAIN run[r].summary

\* the summary of a run through the store has the four figures
C21_StoredPathComplete ==
    /\ run["first"].pc = "returned"
    /\ stage_log["first"] = StageOrder
    /\ SuccessFigures \subseteq DOMAIN run["first"].summary

\* the summary of a run in which nothing was scraped has no count of
\* duplicates
C21_EmptyPathIncomplete ==
    /\ run["first"].pc = "returned"
    /\ run["first"].collected = "returned"
    /\ run["first"].scraped = 0
    /\ run["first"].summary.success
    /\ "skipped_projects" \notin DOMAIN run["first"].summary

\* C28: an invocation enters a stage only when validate has returned true
\* and storage_manager.initialize has returned true in that invocation;
\* when validate returns false initialize is not called, and when either
\* returns false the invocation has returned success = false without having
\* entered the collection, the enrichment or the store.
C28_NoStageBeforeChecks ==
    \A r \in Invocations :
        /\ stage_log[r] # <<>> =>
             run[r].validated = "true" /\ run[r].initialized = "true"
        /\ run[r].pc \notin {"idle", "returned"} => run[r].validated = "true"
        /\ run[r].validated = "false" => run[r].initialized = "none"
        /\ (run[r].validated = "false" \/ run[r].initialized = "false") =>
             /\ run[r].pc = "returned"
             /\ ~run[r].summary.success
             /\ stage_log[r] = <<>>

\* one invocation ended at validate and the other at initialize, neither
\* having entered a stage
C28_Witness ==
    /\ run["first"].validated = "false"
    /\ run["first"].pc = "returned"
    /\ run["first"].summary.error = InvalidConfigurationError
    /\ run["second"].validated = "true"
    /\ run["second"].initialized = "false"
    /\ run["second"].pc = "returned"
    /\ run["second"].summary.error = StorageInitError
    /\ stage_log["first"] = <<>>
    /\ stage_log["second"] = <<>>

\* both checks passed and the scrapers ran
C28_PassedWitness ==
    /\ run["first"].validated = "true"
    /\ run["first"].initialized = "true"
    /\ run["first"].pc = "collect"

(***************************************************************************)
(* Claims about the fields of a record that leaves enrichment              *)
(***************************************************************************)
\* the record as add_project put it into the result, before enrichment
CollectedBefore == [created[1] EXCEPT !.source = scraping_result[1].source]

\* the fields enrichment has no business with
KeptFields == {"project_name", "website", "twitter", "source", "date_added"}

\* C25: the record enrichment returns has the project_name, website,
\* twitter, source and date_added of the record it was given, and the
\* record it was given is, after the call, what it was before.
C25_OnlyContactFieldsChange ==
    enrichment # <<>> =>
        /\ \A f \in KeptFields : Enriched[f] = CollectedBefore[f]
        /\ EnrichmentInput = CollectedBefore

\* both lookups found a value: the returned record differs from the one
\* given, in email and linkedin, and the one given has neither
C25_Witness ==
    /\ rec_pc = "enriched"
    /\ CollectedBefore.email = None
    /\ CollectedBefore.linkedin = None
    /\ CollectedBefore.date_added = "2025-06-27"
    /\ Enriched.email = FoundEmail
    /\ Enriched.linkedin = FoundLinkedin
    /\ Enriched.date_added = "2025-06-27"
    /\ EnrichmentInput.email = None
    /\ EnrichmentInput.linkedin = None

\* an address that is lower-case and trimmed
NormalizedEmail(email) == email = lower(strip(email))

\* a URL with a host on linkedin.com
LinkedinUrl(url) ==
    /\ HasHttpScheme(url)
    /\ Contains(urlparse_netloc(url), LinkedinPlatform)

\* C26: in every record that leaves enrichment a populated email is
\* lower-case and trimmed and a populated linkedin is a URL on linkedin.com,
\* also when a lookup filled the field.
C26_NormalizedAfterEnrichment ==
    enrichment # <<>> =>
        /\ Populated(Enriched.email) => NormalizedEmail(Enriched.email)
        /\ Populated(Enriched.linkedin) => LinkedinUrl(Enriched.linkedin)

\* the address the scraper extracted left enrichment lower-case and trimmed
C26_ScrapedEmailNormalized ==
    /\ rec_pc = "enriched"
    /\ raw_entity[1].email = <<" ", "I", "n", "f", "o", "@", "A", "l", "p", "h", "a", ".", "x", "y", "z", " ">>
    /\ Populated(Enriched.email)
    /\ NormalizedEmail(Enriched.email)

\* the address the service found left enrichment as it was found
C26_FoundEmailAsFound ==
    /\ rec_pc = "enriched"
    /\ enrichment[1].email_called
    /\ Enriched.email = FoundEmail
    /\ ~NormalizedEmail(Enriched.email)


(***************************************************************************)
(* The cooldown pauses of the batched stages                               *)
(***************************************************************************)
\* len(self.enabled_scrapers) or len(projects): what the running stage
\* iterates over
StageLength ==
    IF stage = "collect" THEN Len(enabled_scrapers) ELSE Len(enrich_input)

\* the number of groups of at most Limit units that n units make
GroupsOf(n) == (n + Limit - 1) \div Limit

\* C23: in collection and in enrichment a cooldown pause is taken after a
\* group exactly when another group follows: a stage is in its pause only
\* while units remain beyond the group just taken, the pauses taken so far
\* are one per group taken except the one in flight or the final one, and a
\* stage that returns over n > 0 units has taken ceil(n / limit) groups and
\* ceil(n / limit) - 1 pauses, none over an empty input.
C23_PausesBetweenGroups ==
    stage \in {"collect", "enrich"} =>
        /\ (pc = "sleep") => (loop_i + Limit < StageLength /\ sleeps = group)
        /\ (pc = "loop") => (sleeps = group /\ loop_i < StageLength)
        /\ (pc = "gather") => (sleeps = group - 1)
        /\ (pc = "done" /\ StageLength = 0) => (sleeps = 0 /\ group = 0)
        /\ (pc = "done" /\ StageLength > 0) =>
              /\ group = GroupsOf(StageLength)
              /\ sleeps = GroupsOf(StageLength) - 1
              /\ loop_i + Limit >= StageLength

\* collection over the seven registered scrapers has returned after three
\* groups and two pauses
C23_Witness ==
    /\ pc = "done"
    /\ stage = "collect"
    /\ StageLength = 7
    /\ group = 3
    /\ sleeps = 2

\* enrichment over six records has returned after two groups and one pause
C23_EnrichWitness ==
    /\ pc = "done"
    /\ stage = "enrich"
    /\ StageLength = 6
    /\ sleeps = 1


(***************************************************************************)
(* One run's list persisted: more records than one Airtable batch holds    *)
(***************************************************************************)
\* the most distinct records in the list of one run
MaxBulk == 21

\* the name of the k-th record: two lowercase letters, different for
\* different k
BulkName(k) ==
    <<LowerChars[((k - 1) \div 5) + 1], LowerChars[((k - 1) % 5) + 1]>>

\* the k-th record of a run: valid, without website, its own name
BulkProject(k) ==
    ProjectData(BulkName(k), NoneUrl, "https://twitter.com/bulk")

\* the list a run hands to store_projects: n distinct records, and the
\* first of them once more at the end when repeated
BulkList(n, repeated) ==
    [k \in 1..n |-> BulkProject(k)]
        \o (IF repeated /\ n > 0 THEN <<BulkProject(1)>> ELSE <<>>)

\* an empty store
InitBulk ==
    /\ storage_type \in {"google_sheets", "airtable"}
    /\ store = <<>>
    /\ StoreIdle
    /\ BatchIdle
    /\ RecordIdle
    /\ RunIdle
    /\ PauseIdle
    /\ LateIdle

\* "stored_count, skipped_count = await store_projects(enriched_projects)"
StoreEnriched ==
    /\ calls = 0
    /\ \E n \in 0..MaxBulk, repeated \in BOOLEAN :
         \E dom_ok \in BOOLEAN, names_ok \in BOOLEAN :
            StoreProjects(BulkList(n, repeated), dom_ok, names_ok)

NextBulk == StoreEnriched

SpecBulk == InitBulk /\ [][NextBulk]_vars

\* what run_full_aggregation returns once store_projects has ended: the
\* success summary from the pair returned, or the handler's summary of the
\* exception raised
SummaryAfterStore ==
    IF result.kind = "returned"
    THEN SuccessSummary(Len(projects), result.stored_count,
                        result.skipped_count, 1)
    ELSE FailureSummary("store_projects raised", 1)

\* the rows the latest store_projects call appended
AppendedRows == SubSeq(store, prior_len + 1, Len(store))

\* C27: in the success summary of a run whose list was not empty,
\* total_projects = new_projects + skipped_projects, and new_projects is the
\* number of rows the run appended to the store.
C27_SummaryCountsMatchStore ==
    (result.kind = "returned" /\ projects # <<>>) =>
        /\ SummaryAfterStore.success
        /\ SummaryAfterStore.total_projects =
              SummaryAfterStore.new_projects
                 + SummaryAfterStore.skipped_projects
        /\ SummaryAfterStore.new_projects = Len(AppendedRows)

\* a run on Airtable returned after two batches: twelve records appended,
\* one rejected
C27_Witness ==
    /\ result.kind = "returned"
    /\ storage_type = "airtable"
    /\ SummaryAfterStore.total_projects = 13
    /\ SummaryAfterStore.new_projects = 12
    /\ SummaryAfterStore.skipped_projects = 1
    /\ Len(AppendedRows) = 12

\* C22: a run that ends with success=false has added no record to the
\* store: when persisting raises, also part-way through, none of the run's
\* records is in the store.
C22_FailedRunPersistsNothing ==
    (result.kind = "raised" /\ ~SummaryAfterStore.success) =>
        AppendedRows = <<>>

\* on Google Sheets the rows go in one append_rows call: when it raises the
\* run has appended nothing
C22_SheetsAllOrNothing ==
    (storage_type = "google_sheets" /\ result.kind = "raised") =>
        AppendedRows = <<>>

\* on Airtable the second batch_create raised after the first had created
\* its ten records: the run failed and ten of its records are in the store
C22_AirtablePartial ==
    /\ storage_type = "airtable"
    /\ result.kind = "raised"
    /\ ~SummaryAfterStore.success
    /\ Len(projects) > batch_size
    /\ Len(AppendedRows) = batch_size


(***************************************************************************)
(* enable_scraper and disable_scraper on a manager between stages          *)
(***************************************************************************)
\* the keys of ScraperManager.scrapers
Registered == {scrapers[k] : k \in DOMAIN scrapers}

\* the names callers pass: the registered ones, one never registered, and
\* a registered one in another case (the dict's keys are case-sensitive)
ScraperNames == Registered \cup {"binance", "CryptoRank"}

\* list.remove(x): the list without its first element equal to x
RECURSIVE list_remove(_, _)
list_remove(list, x) ==
    IF list = <<>> THEN <<>>
    ELSE IF Head(list) = x THEN Tail(list)
    ELSE <<Head(list)>> \o list_remove(Tail(list), x)

\* A bug enable_scraper could have: the name is appended whether or not it
\* is enabled already.
enable_scraper_again(enabled, scraper_name) ==
    IF scraper_name \in Registered
    THEN Append(enabled, scraper_name)
    ELSE enabled

\* enable_scraper(scraper_name), as the list it leaves
enable_scraper(enabled, scraper_name) ==
    IF scraper_name \in Registered /\ scraper_name \notin SeqRange(enabled)
    THEN Append(enabled, scraper_name)
    ELSE enabled

\* disable_scraper(scraper_name), as the list it leaves
disable_scraper(enabled, scraper_name) ==
    IF scraper_name \in SeqRange(enabled)
    THEN list_remove(enabled, scraper_name)
    ELSE enabled

\* what a call on the list leaves alone
ManagerFrame ==
    /\ UNCHANGED <<pc, stage, enrich_input, loop_i, group, batch,
                   scraper_instances, status, started_in, invoked, outcome,
                   finished, batch_results, all_projects,
                   successful_scrapers, failed_scrapers, enriched_projects,
                   successful_enrichments, failed_enrichments>>
    /\ UNCHANGED <<storeVars, recordVars, runVars, pauseVars, schedVars,
                   scraperVars>>

\* manager.enable_scraper(scraper_name); last_call keeps the call and the
\* list it found
EnableScraper(scraper_name) ==
    /\ pc = "idle"
    /\ enabled_scrapers' = enable_scraper(enabled_scrapers, scraper_name)
    /\ last_call' = <<[op |-> "enable", scraper_name |-> scraper_name,
                       before |-> enabled_scrapers]>>
    /\ ManagerFrame

\* manager.disable_scraper(scraper_name)
DisableScraper(scraper_name) ==
    /\ pc = "idle"
    /\ enabled_scrapers' = disable_scraper(enabled_scrapers, scraper_name)
    /\ last_call' = <<[op |-> "disable", scraper_name |-> scraper_name,
                       before |-> enabled_scrapers]>>
    /\ ManagerFrame

\* the manager as constructed: every registered scraper enabled
InitManager ==
    /\ storage_type = "google_sheets"
    /\ store = <<>>
    /\ StoreIdle
    /\ BatchIdle
    /\ RecordIdle
    /\ RunIdle
    /\ PauseIdle
    /\ LateIdle

NextManager ==
    \/ \E scraper_name \in ScraperNames : EnableScraper(scraper_name)
    \/ \E scraper_name \in ScraperNames : DisableScraper(scraper_name)

SpecManager == InitManager /\ [][NextManager]_vars

\* C29: after any sequence of enable_scraper and disable_scraper calls the
\* enabled list holds registered names only and no name twice; enabling a
\* name that is enabled already or is not registered, and disabling a name
\* that is not enabled, leave the list as it was.
C29_EnabledListWellFormed ==
    /\ \A k \in DOMAIN enabled_scrapers : enabled_scrapers[k] \in Registered
    /\ \A j, k \in DOMAIN enabled_scrapers :
          j # k => enabled_scrapers[j] # enabled_scrapers[k]
    /\ \A c \in SeqRange(last_call) :
          /\ (/\ c.op = "enable"
              /\ \/ c.scraper_name \in SeqRange(c.before)
                 \/ c.scraper_name \notin Registered)
                => enabled_scrapers = c.before
          /\ (c.op = "disable" /\ c.scraper_name \notin SeqRange(c.before))
                => enabled_scrapers = c.before

\* after some names were disabled and one enabled again at the end of the
\* list, a name that is enabled already was enabled once more
C29_Witness ==
    /\ last_call # <<>>
    /\ last_call[1].op = "enable"
    /\ last_call[1].scraper_name \in SeqRange(last_call[1].before)
    /\ enabled_scrapers = last_call[1].before
    /\ Len(enabled_scrapers) = 3
    /\ enabled_scrapers[3] = "cryptorank"

\* a name that is not enabled was disabled, and a name never registered
\* was enabled
C29_UnknownWitness ==
    /\ last_call # <<>>
    /\ last_call[1].scraper_name \notin Registered
    /\ Len(enabled_scrapers) = 5


(***************************************************************************)
(* BaseScraper.run_scraper: setup, scrape, and the cleanup of its finally  *)
(***************************************************************************)
\* the scraper objects whose run_scraper is called, by source name; each
\* has its own browser, and their calls interleave under gather
ScraperRuns == {"cryptorank", "icodrops", "dappradar", "zealy"}

\* the most records one scrape() finds
MaxFound == 1

\* None where an error text is expected
NoError == "<None>"

\* ScrapingResult(source=...): no projects, success=True, error=None
NewScrapingResult(source) ==
    [source |-> source, projects |-> 0, success |-> TRUE, error |-> NoError]

\* the texts of the exceptions scrape() may raise
ScrapeErrors == {"TimeoutError", "KeyError"}

\* what scrape() hands back: its result with the records found, or with
\* success=False and an error text
ScrapeResults(source) ==
    {[NewScrapingResult(source) EXCEPT !.projects = n] : n \in 0..MaxFound}
      \cup {[NewScrapingResult(source) EXCEPT !.success = FALSE,
                                              !.error = "No data found"]}

\* a scraper object before run_scraper is called
IdleScraper(source) ==
    [pc |-> "idle", path |-> "none", cleanup_calls |-> 0,
     cleanup_error |-> FALSE, result |-> NewScrapingResult(source)]

\* A bug the setup test could have: the early return is placed outside the
\* try statement, so the finally clause does not run for it.
setup_failed_outside_try(self) ==
    [self EXCEPT !.pc = "returned", !.path = "setup_failed",
                 !.result = [@ EXCEPT !.success = FALSE,
                                      !.error = "Failed to setup browser"]]

\* "if not browser_setup: result.success = False; ...; return result",
\* inside the try: the finally clause runs before the return takes effect
setup_failed(self) ==
    [self EXCEPT !.pc = "finally", !.path = "setup_failed",
                 !.result = [@ EXCEPT !.success = FALSE,
                                      !.error = "Failed to setup browser"]]

\* "except Exception as e: result.success = False; result.error = str(e)"
\* on the result run_scraper created, then the finally clause
scrape_raised(self, e) ==
    [self EXCEPT !.pc = "finally", !.path = "scrape_raised",
                 !.result = [@ EXCEPT !.success = FALSE, !.error = e]]

\* run_scraper(), up to "await self.setup_browser()"
RunScraper(s) ==
    /\ scraper_run[s].pc = "idle"
    /\ scraper_run' = [scraper_run EXCEPT
                          ![s] = [@ EXCEPT !.pc = "setup",
                                           !.result = NewScrapingResult(s)]]
    /\ UNCHANGED <<managerVars, schedVars>>
    /\ UNCHANGED <<storeVars, batchVars, recordVars, runVars, pauseVars>>

\* setup_browser returns: True, or False where launching raised
SetupBrowserReturns(s, browser_setup) ==
    /\ scraper_run[s].pc = "setup"
    /\ scraper_run' = [scraper_run EXCEPT
                          ![s] = IF browser_setup
                                 THEN [@ EXCEPT !.pc = "scrape"]
                                 ELSE setup_failed(@)]
    /\ UNCHANGED <<managerVars, schedVars>>
    /\ UNCHANGED <<storeVars, batchVars, recordVars, runVars, pauseVars>>

\* "result = await self.scrape()" returns a result
ScrapeReturns(s, scraped) ==
    /\ scraper_run[s].pc = "scrape"
    /\ scraper_run' = [scraper_run EXCEPT
                          ![s] = [@ EXCEPT !.pc = "finally",
                                           !.path = IF scraped.success
                                                    THEN "success"
                                                    ELSE "scrape_failed",
                                           !.result = scraped]]
    /\ UNCHANGED <<managerVars, schedVars>>
    /\ UNCHANGED <<storeVars, batchVars, recordVars, runVars, pauseVars>>

\* "result = await self.scrape()" raises
ScrapeRaises(s, e) ==
    /\ scraper_run[s].pc = "scrape"
    /\ scraper_run' = [scraper_run EXCEPT ![s] = scrape_raised(@, e)]
    /\ UNCHANGED <<managerVars, schedVars>>
    /\ UNCHANGED <<storeVars, batchVars, recordVars, runVars, pauseVars>>

\* "finally: await self.cleanup_browser()", then "return result"; closing
\* the page or the browser may raise, which cleanup_browser logs and drops
CleanupBrowser(s, close_raises) ==
    /\ scraper_run[s].pc = "finally"
    /\ scraper_run' = [scraper_run EXCEPT
                          ![s] = [@ EXCEPT !.pc = "returned",
                                           !.cleanup_calls = @ + 1,
                                           !.cleanup_error = close_raises]]
    /\ UNCHANGED <<managerVars, schedVars>>
    /\ UNCHANGED <<storeVars, batchVars, recordVars, runVars, pauseVars>>

InitScraper ==
    /\ storage_type = "google_sheets"
    /\ store = <<>>
    /\ StoreIdle
    /\ BatchIdle
    /\ RecordIdle
    /\ RunIdle
    /\ PauseIdle
    /\ last_call = <<>>
    /\ clock = 0
    /\ sched = <<>>
    /\ jobs = <<>>
    /\ scraper_run = [s \in ScraperRuns |-> IdleScraper(s)]

NextScraper ==
    \E s \in ScraperRuns :
        \/ RunScraper(s)
        \/ \E browser_setup \in BOOLEAN : SetupBrowserReturns(s, browser_setup)
        \/ \E scraped \in ScrapeResults(s) : ScrapeReturns(s, scraped)
        \/ \E e \in ScrapeErrors : ScrapeRaises(s, e)
        \/ \E close_raises \in BOOLEAN : CleanupBrowser(s, close_raises)

SpecScraper == InitScraper /\ [][NextScraper]_vars

\* a ScrapingResult of the given source
IsScrapingResult(r, source) ==
    /\ r.source = source
    /\ r.projects \in 0..MaxFound
    /\ r.success \in BOOLEAN
    /\ r.success => r.error = NoError

\* C30: every run_scraper call returns a ScrapingResult instead of raising,
\* and cleanup_browser is invoked exactly once before it returns, on every
\* path: setup failed, scrape returned a failed result, scrape raised,
\* success.  Until the finally clause nothing has been cleaned up.
C30_ReturnsResultCleansUpOnce ==
    \A s \in ScraperRuns :
        LET self == scraper_run[s]
        IN  /\ self.pc \in {"idle", "setup", "scrape", "finally", "returned"}
            /\ (self.pc \in {"idle", "setup", "scrape", "finally"})
                  => self.cleanup_calls = 0
            /\ (self.pc = "returned") =>
                  /\ self.cleanup_calls = 1
                  /\ IsScrapingResult(self.result, s)
                  /\ self.path \in {"setup_failed", "scrape_failed",
                                    "scrape_raised", "success"}
                  /\ self.result.success = (self.path = "success")
                  /\ (self.path = "setup_failed")
                        => self.result.error = "Failed to setup browser"
                  /\ (self.path = "scrape_raised")
                        => self.result.error \in ScrapeErrors

\* four calls have returned, one on each path, each after one cleanup
C30_Witness ==
    /\ \A s \in ScraperRuns :
          scraper_run[s].pc = "returned" /\ scraper_run[s].cleanup_calls = 1
    /\ scraper_run["cryptorank"].path = "setup_failed"
    /\ scraper_run["icodrops"].path = "scrape_failed"
    /\ scraper_run["dappradar"].path = "scrape_raised"
    /\ scraper_run["zealy"].path = "success"
    /\ scraper_run["zealy"].cleanup_error


(***************************************************************************)
(* AggregatorScheduler.run_scheduled_aggregation: the is_running flag      *)
(***************************************************************************)
\* the invocations of run_scheduled_aggregation on one scheduler; between
\* two awaits an invocation runs alone
ScheduledJobs == {"job1", "job2", "job3"}

\* the latest reading of datetime.now() the model follows
MaxClock == 4

\* AggregatorScheduler.__init__: last_run_time None (0), last_run_result
\* None (the empty sequence)
NewScheduler ==
    [is_running |-> FALSE, last_run_time |-> 0, last_run_result |-> <<>>]

\* how app.run_full_aggregation() can end for the scheduler: one of its
\* three summaries, or an exception
RunOutcomes ==
    {[kind |-> "returned", value |-> SuccessSummary(2, 1, 1, 1)],
     [kind |-> "returned", value |-> EmptySummary(1)],
     [kind |-> "returned",
      value |-> FailureSummary(InvalidConfigurationError, 1)],
     [kind |-> "raised", value |-> [error |-> "RuntimeError"]]}

\* A bug the guard could have: the flag is not consulted.
already_running_ignored(self) == FALSE

\* "if self.is_running"
already_running(self) == self.is_running

\* run_scheduled_aggregation up to its first await: the guard's return, or
\* the flag set and the start time taken
enter_run(self, now) ==
    IF already_running(self) THEN self
    ELSE [self EXCEPT !.is_running = TRUE, !.last_run_time = now]

\* from the end of "await app.run_full_aggregation()" to the end of the
\* finally clause: the summary kept, or the handler's dictionary, and the
\* flag cleared
leave_run(self, ending) ==
    [self EXCEPT
        !.last_run_result =
            IF ending.kind = "returned" THEN <<ending.value>>
            ELSE <<[success |-> FALSE, error |-> ending.value.error]>>,
        !.is_running = FALSE]

\* the invocations that are inside app.run_full_aggregation()
RunsInFlight == {j \in ScheduledJobs : jobs[j].pc = "running"}

\* what an observer sees of the scheduler: its three fields and the runs in
\* flight
SchedulerView(in_flight, fields) == [fields |-> fields, in_flight |-> in_flight]

IdleJob == [pc |-> "idle", found |-> <<>>, left |-> <<>>, ended_as |-> "none"]

\* an invocation of run_scheduled_aggregation, up to its return at the
\* guard or to its await; found and left keep what it found and left
InvokeScheduled(j) ==
    /\ jobs[j].pc \in {"idle", "skipped", "ended"}
    /\ clock < MaxClock
    /\ clock' = clock + 1
    /\ sched' = enter_run(sched, clock + 1)
    /\ \E skips \in {already_running(sched)} :
         \E after \in {IF skips THEN RunsInFlight ELSE RunsInFlight \cup {j}} :
          jobs' = [jobs EXCEPT ![j] =
                     [pc |-> IF skips THEN "skipped" ELSE "running",
                      found |-> <<SchedulerView(RunsInFlight, sched)>>,
                      left |-> <<SchedulerView(after, sched')>>,
                      ended_as |-> "none"]]
    /\ UNCHANGED <<managerVars, scraperVars>>
    /\ UNCHANGED <<storeVars, batchVars, recordVars, runVars, pauseVars>>

\* the run in flight ends and the invocation returns
ScheduledRunEnds(j, ending) ==
    /\ jobs[j].pc = "running"
    /\ sched' = leave_run(sched, ending)
    /\ jobs' = [jobs EXCEPT ![j] =
                  [@ EXCEPT !.pc = "ended",
                            !.left = <<SchedulerView(RunsInFlight \ {j},
                                                     sched')>>,
                            !.ended_as =
                                IF ending.kind = "raised" THEN "raised"
                                ELSE IF ending.value.success THEN "success"
                                ELSE "failed"]]
    /\ UNCHANGED clock
    /\ UNCHANGED <<managerVars, scraperVars>>
    /\ UNCHANGED <<storeVars, batchVars, recordVars, runVars, pauseVars>>

InitScheduler ==
    /\ storage_type = "google_sheets"
    /\ store = <<>>
    /\ StoreIdle
    /\ BatchIdle
    /\ RecordIdle
    /\ RunIdle
    /\ PauseIdle
    /\ last_call = <<>>
    /\ scraper_run = <<>>
    /\ clock = 0
    /\ sched = NewScheduler
    /\ jobs = [j \in ScheduledJobs |-> IdleJob]

NextScheduler ==
    \E j \in ScheduledJobs :
        \/ InvokeScheduled(j)
        \/ \E ending \in RunOutcomes : ScheduledRunEnds(j, ending)

SpecScheduler == InitScheduler /\ [][NextScheduler]_vars

\* C24: is_running is true exactly while a scheduled run is in flight, and
\* at most one is; an invocation that found the flag set returned without
\* starting a run and left is_running, last_run_time and last_run_result as
\* it found them; and when the run in flight ended, with a success summary,
\* a failed summary or an exception, the flag was cleared.
C24_FlagTracksRunInFlight ==
    /\ sched.is_running <=> (RunsInFlight # {})
    /\ Cardinality(RunsInFlight) <= 1
    /\ \A j \in ScheduledJobs :
          /\ (jobs[j].pc = "skipped") =>
                /\ jobs[j].found[1].fields.is_running
                /\ jobs[j].left[1] = jobs[j].found[1]
                /\ j \notin jobs[j].left[1].in_flight
          /\ (jobs[j].pc = "running") =>
                /\ ~jobs[j].found[1].fields.is_running
                /\ jobs[j].found[1].in_flight = {}
          /\ (jobs[j].pc = "ended") =>
                /\ jobs[j].ended_as \in {"success", "failed", "raised"}
                /\ ~jobs[j].left[1].fields.is_running
                /\ jobs[j].left[1].in_flight = {}

\* while one run was in flight a second invocation was skipped; then the
\* run raised, the flag was cleared, and a third invocation started a run
C24_Witness ==
    /\ jobs["job1"].pc = "ended"
    /\ jobs["job1"].ended_as = "raised"
    /\ jobs["job2"].pc = "skipped"
    /\ jobs["job2"].found[1].fields.last_run_time = 1
    /\ jobs["job3"].pc = "running"
    /\ sched.is_running
    /\ sched.last_run_time = 3

=============================================================================
